---- MODULE Spec2Model ----
(***************************************************************************)
(* A model of the LATIN interpreter (src/latin.py): the Roman numeral      *)
(* codec, the declension table, the tokenizer and the line-oriented        *)
(* execution engine with its block, loop, call and exception stacks.       *)
(*                                                                         *)
(* Source text is modelled as TLA+ strings; positions are 0-based as in    *)
(* the Python source, so character i of s is SubSeq(s, i+1, i+1).          *)
(***************************************************************************)
EXTENDS Integers, Sequences, FiniteSets, TLC

(***************************************************************************)
(* String helpers (Python str methods used by the source)                  *)
(***************************************************************************)

\* s[pos:]
From(s, pos) == SubSeq(s, pos + 1, Len(s))

\* s[pos]
CharAt(s, pos) == SubSeq(s, pos + 1, pos + 1)

\* s.startswith(p)
StartsWith(s, p) == Len(p) <= Len(s) /\ SubSeq(s, 1, Len(p)) = p

\* s.endswith(p)
EndsWith(s, p) == Len(p) <= Len(s) /\ SubSeq(s, Len(s) - Len(p) + 1, Len(s)) = p

\* s.find(c, start) for a one-character c: the first index >= start, or -1
RECURSIVE Find(_, _, _)
Find(s, c, start) ==
    IF start >= Len(s) THEN -1
    ELSE IF CharAt(s, start) = c THEN start
    ELSE Find(s, c, start + 1)

Whitespace == {" ", "\t"}

RECURSIVE LStrip(_)
LStrip(s) == IF Len(s) > 0 /\ CharAt(s, 0) \in Whitespace THEN LStrip(From(s, 1)) ELSE s

RECURSIVE RStrip(_)
RStrip(s) ==
    IF Len(s) > 0 /\ CharAt(s, Len(s) - 1) \in Whitespace
    THEN RStrip(SubSeq(s, 1, Len(s) - 1)) ELSE s

\* s.strip()
Strip(s) == RStrip(LStrip(s))

\* s.split(';')[0] when ';' occurs in s, else s
BeforeComment(s) ==
    LET i == Find(s, ";", 0) IN IF i = -1 THEN s ELSE SubSeq(s, 1, i)

Upper == {"A", "B", "C", "D", "E", "F", "G", "H", "I", "J", "K", "L", "M",
          "N", "O", "P", "Q", "R", "S", "T", "U", "V", "W", "X", "Y", "Z"}

\* the end of the run of uppercase letters of line that starts at pos
RECURSIVE UpperRunEnd(_, _)
UpperRunEnd(line, pos) ==
    IF pos < Len(line) /\ CharAt(line, pos) \in Upper
    THEN UpperRunEnd(line, pos + 1) ELSE pos

\* numeral * count
RECURSIVE Repeat(_, _)
Repeat(s, count) == IF count <= 0 THEN "" ELSE s \o Repeat(s, count - 1)

(***************************************************************************)
(* RomanNumeralParser                                                      *)
(***************************************************************************)

RomanLetters == {"M", "D", "C", "L", "X", "V", "I"}

ROMAN_VALUES(c) ==
    CASE c = "M" -> 1000 [] c = "D" -> 500 [] c = "C" -> 100 [] c = "L" -> 50
      [] c = "X" -> 10 [] c = "V" -> 5 [] c = "I" -> 1

\* Optional[int]
None == [some |-> FALSE, val |-> 0]
Some(n) == [some |-> TRUE, val |-> n]

\* the loop of parse: characters i-1, i-2, ..., 0 of roman are still to be read
RECURSIVE ParseLoop(_, _, _, _)
ParseLoop(roman, i, total, prev_value) ==
    IF i = 0 THEN (IF total > 0 THEN Some(total) ELSE None)
    ELSE LET char == CharAt(roman, i - 1) IN
         IF char \notin RomanLetters THEN None
         ELSE LET value == ROMAN_VALUES(char) IN
              ParseLoop(roman, i - 1,
                        IF value < prev_value THEN total - value ELSE total + value,
                        value)

\* a parse that adds every character (no subtractive rule)
ParseAdditive(roman) ==
    LET RECURSIVE Sum(_)
        Sum(i) == IF i = 0 THEN 0 ELSE ROMAN_VALUES(CharAt(roman, i - 1)) + Sum(i - 1)
    IN IF roman = "" \/ \E i \in 0..(Len(roman) - 1) : CharAt(roman, i) \notin RomanLetters
       THEN None ELSE Some(Sum(Len(roman)))

\* a parse that reads the characters from left to right and subtracts a value
\* that is smaller than the one read before it
ParseForward(roman) ==
    LET RECURSIVE Loop(_, _, _)
        Loop(i, total, prev_value) ==
            IF i = Len(roman) THEN (IF total > 0 THEN Some(total) ELSE None)
            ELSE IF CharAt(roman, i) \notin RomanLetters THEN None
            ELSE LET value == ROMAN_VALUES(CharAt(roman, i)) IN
                 Loop(i + 1, IF value < prev_value THEN total - value ELSE total + value,
                      value)
    IN IF roman = "" THEN None ELSE Loop(0, 0, 0)

parse(roman) == IF roman = "" THEN None ELSE ParseLoop(roman, Len(roman), 0, 0)

RomanTable ==
    << <<1000, "M">>, <<900, "CM">>, <<500, "D">>, <<400, "CD">>,
       <<100, "C">>, <<90, "XC">>, <<50, "L">>, <<40, "XL">>,
       <<10, "X">>, <<9, "IX">>, <<5, "V">>, <<4, "IV">>, <<1, "I">> >>

RECURSIVE ToRomanLoop(_, _)
ToRomanLoop(num, k) ==
    IF k > Len(RomanTable) THEN ""
    ELSE LET value == RomanTable[k][1]
             numeral == RomanTable[k][2]
             count == num \div value
         IN Repeat(numeral, count) \o ToRomanLoop(num - value * count, k + 1)

to_roman(num) == IF num <= 0 THEN "NIHIL" ELSE ToRomanLoop(num, 1)

(***************************************************************************)
(* LatinDeclension                                                         *)
(***************************************************************************)

Decl(nom, gen, acc, dat, abl, voc) ==
    [nom |-> nom, gen |-> gen, acc |-> acc, dat |-> dat, abl |-> abl, voc |-> voc]

\* The class attribute DECLENSIONS as written in the source, in insertion order.
BuiltinDeclensions ==
    <<
       Decl("NUMERUS", "NUMERI", "NUMERUM", "NUMERO", "NUMERO", "NUMERE"),
       Decl("PRIMUS", "PRIMI", "PRIMUM", "PRIMO", "PRIMO", "PRIME"),
       Decl("SECUNDUS", "SECUNDI", "SECUNDUM", "SECUNDO", "SECUNDO", "SECUNDE"),
       Decl("TERTIUS", "TERTII", "TERTIUM", "TERTIO", "TERTIO", "TERTIE"),
       Decl("QUARTUS", "QUARTI", "QUARTUM", "QUARTO", "QUARTO", "QUARTE"),
       Decl("QUINTUS", "QUINTI", "QUINTUM", "QUINTO", "QUINTO", "QUINTE"),
       Decl("MAXIMVS", "MAXIMI", "MAXIMVM", "MAXIMO", "MAXIMO", "MAXIME"),
       Decl("AMICUS", "AMICI", "AMICUM", "AMICO", "AMICO", "AMICE"),
       Decl("SERVUS", "SERVII", "SERVUM", "SERVO", "SERVO", "SERVE"),
       Decl("DOMINUS", "DOMINI", "DOMINUM", "DOMINO", "DOMINO", "DOMINE"),
       Decl("FILIUS", "FILII", "FILIUM", "FILIO", "FILIO", "FILI"),
       Decl("ANNUS", "ANNI", "ANNUM", "ANNO", "ANNO", "ANNE"),
       Decl("LIBER", "LIBRI", "LIBRUM", "LIBRO", "LIBRO", "LIBER"),
       Decl("VENTER", "VENTRIS", "VENTREM", "VENTRI", "VENTRE", "VENTER"),
       Decl("INDEX", "INDICIS", "INDICEM", "INDICI", "INDICE", "INDEX"),
       Decl("RESULTAT", "RESULTATI", "RESULTATUM", "RESULTATO", "RESULTATO", "RESULTAT"),
       Decl("ERROR", "ERRORIS", "ERROREM", "ERRORI", "ERRORE", "ERROR"),
       Decl("EXCEPTIO", "EXCEPTIONIS", "EXCEPTIONEM", "EXCEPTIONI", "EXCEPTIONE", "EXCEPTIO"),
       Decl("BELLVM", "BELLI", "BELLVM", "BELLO", "BELLO", "BELLVM"),
       Decl("VERBVM", "VERBI", "VERBVM", "VERBO", "VERBO", "VERBVM"),
       Decl("DONVM", "DONI", "DONVM", "DONO", "DONO", "DONVM"),
       Decl("PRAEFIXVM", "PRAEFIXI", "PRAEFIXVM", "PRAEFIXO", "PRAEFIXO", "PRAEFIXVM"),
       Decl("PUELLA", "PUELLAE", "PUELLAM", "PUELLAE", "PUELLA", "PUELLA"),
       Decl("ROSA", "ROSAE", "ROSAM", "ROSAE", "ROSA", "ROSA"),
       Decl("AQUA", "AQUAE", "AQUAM", "AQUAE", "AQUA", "AQUA"),
       Decl("VITA", "VITAE", "VITAM", "VITAE", "VITA", "VITA"),
       Decl("TERRA", "TERRAE", "TERRAM", "TERRAE", "TERRA", "TERRA"),
       Decl("SUMMA", "SUMMAE", "SUMMAM", "SUMMAE", "SUMMA", "SUMMA"),
       Decl("REX", "REGIS", "REGEM", "REGI", "REGE", "REX"),
       Decl("CIVIS", "CIVIS", "CIVEM", "CIVI", "CIVE", "CIVIS"),
       Decl("CORPVS", "CORPORIS", "CORPVS", "CORPORI", "CORPORE", "CORPVS"),
       Decl("TEMPVS", "TEMPORIS", "TEMPVS", "TEMPORI", "TEMPORE", "TEMPVS"),
       Decl("ITER", "ITINERIS", "ITER", "ITINERI", "ITINERE", "ITER"),
       Decl("NOMEN", "NOMINIS", "NOMEN", "NOMINI", "NOMINE", "NOMEN"),
       Decl("AETAS", "AETATIS", "AETATEM", "AETATI", "AETATE", "AETAS"),
       Decl("SALVTATIO", "SALVTATIONIS", "SALVTATIONEM", "SALVTATIONI", "SALVTATIONE", "SALVTATIO"),
       Decl("INPUTVM", "INPUTI", "INPUTVM", "INPUTO", "INPUTO", "INPUTVM"),
       Decl("CONTINVA", "CONTINVAE", "CONTINVAM", "CONTINVAE", "CONTINVA", "CONTINVA"),
       Decl("RESPONSUM", "RESPONSI", "RESPONSUM", "RESPONSO", "RESPONSO", "RESPONSUM"),
       Decl("MANVS", "MANVS", "MANVM", "MANVI", "MANV", "MANVS"),
       Decl("GRADVS", "GRADVS", "GRADVM", "GRADVI", "GRADV", "GRADVS"),
       Decl("RES", "REI", "REM", "REI", "RE", "RES"),
       Decl("DIES", "DIEI", "DIEM", "DIEI", "DIE", "DIES")
    >>

Cases == {"gen", "acc", "dat", "abl", "voc"}

\* The five oblique forms of an entry, as a function of the case name.
FormOf(e, c) ==
    CASE c = "gen" -> e.gen [] c = "acc" -> e.acc [] c = "dat" -> e.dat
      [] c = "abl" -> e.abl [] c = "voc" -> e.voc

\* forms.values()
FormsOf(e) == {FormOf(e, c) : c \in Cases}

\* the fallback pattern for every new name, whatever its ending
AutoDeclensionFallback(var_name) ==
    Decl(var_name, var_name \o "I", var_name \o "M", var_name \o "O",
         var_name \o "O", var_name \o "E")

\* SIT's guess of a declension from the ending of the new name
AutoDeclension(var_name) ==
    LET n == Len(var_name)
        root2 == SubSeq(var_name, 1, n - 2)
        root1 == SubSeq(var_name, 1, n - 1)
    IN IF EndsWith(var_name, "US")
       THEN Decl(var_name, root2 \o "I", root2 \o "UM", root2 \o "O", root2 \o "O", root2 \o "E")
       ELSE IF EndsWith(var_name, "OR")
       THEN Decl(var_name, var_name \o "IS", var_name \o "EM", var_name \o "I",
                 var_name \o "E", var_name)
       ELSE IF EndsWith(var_name, "IO")
       THEN Decl(var_name, var_name \o "NIS", var_name \o "NEM", var_name \o "NI",
                 var_name \o "NE", var_name)
       ELSE IF EndsWith(var_name, "A")
       THEN Decl(var_name, root1 \o "AE", root1 \o "AM", root1 \o "AE", root1 \o "A", root1 \o "A")
       ELSE IF EndsWith(var_name, "VM") \/ EndsWith(var_name, "UM")
       THEN Decl(var_name, root2 \o "I", var_name, root2 \o "O", root2 \o "O", var_name)
       ELSE Decl(var_name, var_name \o "I", var_name \o "M", var_name \o "O",
                 var_name \o "O", var_name \o "E")

(***************************************************************************)
(* State                                                                   *)
(***************************************************************************)

VARIABLES
    lines,                 \* self.lines: the source, one string per line
    line_index,            \* self.line_index (0-based)
    variables,             \* self.variables: name -> value
    heap,                  \* the dict objects that record values refer to
    declared_vars,         \* self.declared_vars (shared with the tokenizer)
    DECLENSIONS,           \* LatinDeclension.DECLENSIONS: the entries, in insertion order
    loop_starts,           \* self.loop_starts: stack of <<line, depth>>
    block_depth,           \* self.block_depth
    functions,             \* self.functions: name -> [params, start_line, end_line]
    call_stack,            \* self.call_stack: stack of [return_line, saved_vars]
    exception_handlers,    \* self.exception_handlers: stack of <<type, line>>
    current_exception,     \* self.current_exception
    exception_throw_line,  \* self.exception_throw_line
    skip_handler_pop,      \* self.skip_handler_pop
    stdout,                \* what is printed to sys.stdout, one element per print call
    stderr,                \* what is printed to sys.stderr, one element per print call
    var_order,             \* the order in which iterating declared_vars visits it
    pc,                    \* "run", or the exit status reached: "exit0" / "exit1"
    steps,                 \* the number of lines run() has processed
    probe                  \* input and result of a codec / tokenizer call under test

vars == <<lines, line_index, variables, heap, declared_vars, DECLENSIONS, loop_starts,
          block_depth, functions, call_stack, exception_handlers, current_exception,
          exception_throw_line, skip_handler_pop, stdout, stderr, var_order, pc, steps,
          probe>>

DeclKeys == {DECLENSIONS[k].nom : k \in 1..Len(DECLENSIONS)}

\* DECLENSIONS[nominative] for a key of the table
Entry(nominative) ==
    DECLENSIONS[CHOOSE k \in 1..Len(DECLENSIONS) : DECLENSIONS[k].nom = nominative]

\* the first key, in insertion order, whose entry contains declined_form
RECURSIVE FirstWithForm(_, _)
FirstWithForm(declined_form, k) ==
    IF k > Len(DECLENSIONS) THEN None
    ELSE IF declined_form \in FormsOf(DECLENSIONS[k]) THEN Some(DECLENSIONS[k].nom)
    ELSE FirstWithForm(declined_form, k + 1)

get_nominative(declined_form) ==
    IF declined_form \in DeclKeys THEN Some(declined_form)
    ELSE FirstWithForm(declined_form, 1)

\* DECLENSIONS.get(nominative, {}).get(case); a missing form (Python None) is
\* modelled as "", which the tokenizer's truth test treats alike
GetForm(nominative, c) ==
    IF nominative \in DeclKeys THEN FormOf(Entry(nominative), c) ELSE ""

get_accusative(nominative) == GetForm(nominative, "acc")
get_dative(nominative) == GetForm(nominative, "dat")
get_ablative(nominative) == GetForm(nominative, "abl")
get_vocative(nominative) == GetForm(nominative, "voc")
get_genitive(nominative) == GetForm(nominative, "gen")

(***************************************************************************)
(* Tokenizer                                                               *)
(***************************************************************************)

\* the keyword list with SI tried before SIT
KEYWORDS_SI_FIRST ==
    <<"SI", "SIT", "EST", "ALITER", "FINIS", "SCRIBE", "LEGO", "ADDE", "DEME", "AEQUAT",
      "DUM", "FAC", "REDDO", "VOCA", "DVCE", "MVLTIPLICA", "MAIVS", "MINOR", "IVNGE",
      "INCIPITCVM", "FINITVRCVM", "CONTINET", "INDICEDE", "IACE", "CAPE", "AVDI", "NOTA">>

KEYWORDS ==
    <<"SIT", "EST", "SI", "ALITER", "FINIS", "SCRIBE", "LEGO", "ADDE", "DEME", "AEQUAT",
      "DUM", "FAC", "REDDO", "VOCA", "DVCE", "MVLTIPLICA", "MAIVS", "MINOR", "IVNGE",
      "INCIPITCVM", "FINITVRCVM", "CONTINET", "INDICEDE", "IACE", "CAPE", "AVDI", "NOTA">>

KeywordSet == {KEYWORDS[k] : k \in 1..Len(KEYWORDS)}

\* tokens: (type, value) pairs; a NUMBER carries its value in num
Tok(type, value) == [type |-> type, value |-> value, num |-> 0]
NumTok(n) == [type |-> "NUMBER", value |-> "", num |-> n]
KW(k) == Tok("KEYWORD", k)

\* the first keyword of the list that rest starts with, or "" if there is none
RECURSIVE FirstKeyword(_, _)
FirstKeyword(rest, k) ==
    IF k > Len(KEYWORDS) THEN ""
    ELSE IF StartsWith(rest, KEYWORDS[k]) THEN KEYWORDS[k]
    ELSE FirstKeyword(rest, k + 1)

\* any(rest.startswith(kw) for kw in KEYWORDS)
KeywordAhead(rest) == FirstKeyword(rest, 1) # ""

\* the first nominative of the table, in insertion order, that rest starts with
RECURSIVE FirstNomPrefix(_, _)
FirstNomPrefix(rest, k) ==
    IF k > Len(DECLENSIONS) THEN ""
    ELSE IF StartsWith(rest, DECLENSIONS[k].nom) THEN DECLENSIONS[k].nom
    ELSE FirstNomPrefix(rest, k + 1)

NoMatch == [found |-> FALSE, tok |-> Tok("", ""), len |-> 0]

\* one "if form and startswith(form): if len(form) > best_length" test
Better(best, rest, form, type, var) ==
    IF form # "" /\ StartsWith(rest, form) /\ Len(form) > best.len
    THEN [found |-> TRUE, tok |-> Tok(type, var), len |-> Len(form)]
    ELSE best

\* the body of "for var in self.declared_vars": nominative, accusative, dative,
\* ablative, vocative, genitive, in this order
MatchVar(best, rest, var) ==
    LET b1 == Better(best, rest, var, "VARIABLE", var)
        b2 == Better(b1, rest, get_accusative(var), "VARIABLE", var)
        b3 == Better(b2, rest, get_dative(var), "VARIABLE", var)
        b4 == Better(b3, rest, get_ablative(var), "VARIABLE", var)
        b5 == Better(b4, rest, get_vocative(var), "VARIABLE", var)
    IN Better(b5, rest, get_genitive(var), "GENITIVE", var)

\* the loop over the declared names, visited in the order given
RECURSIVE MatchVars(_, _, _, _)
MatchVars(best, rest, order, k) ==
    IF k > Len(order) THEN best
    ELSE MatchVars(MatchVar(best, rest, order[k]), rest, order, k + 1)

\* the keyword-adjacency re-check: the length consumed for the selected match
AdjustedLength(line, pos, best) ==
    LET remaining_after == From(line, pos + best.len)
        var_name == best.tok.value
        nom_len == Len(var_name)
    IN IF ~KeywordAhead(remaining_after) /\ best.len > 0
          /\ best.len > nom_len /\ StartsWith(From(line, pos), var_name)
          /\ KeywordAhead(From(line, pos + nom_len))
       THEN nom_len ELSE best.len

\* the end of the run of Roman letters of line that starts at pos
RECURSIVE RomanRunEnd(_, _)
RomanRunEnd(line, pos) ==
    IF pos < Len(line) /\ CharAt(line, pos) \in RomanLetters
    THEN RomanRunEnd(line, pos + 1) ELSE pos

TokOk(tokens) == [ok |-> TRUE, tokens |-> tokens, err |-> ""]
TokErr(msg) == [ok |-> FALSE, tokens |-> <<>>, err |-> msg]

\* the while loop of tokenize_line over the stripped line
RECURSIVE TokenizeFrom(_, _, _, _)
TokenizeFrom(line, pos, tokens, order) ==
    IF pos >= Len(line) THEN TokOk(tokens)
    ELSE
    LET rest == From(line, pos)
        keyword == FirstKeyword(rest, 1)
    IN
    IF CharAt(line, pos) = "\"" THEN
        LET end_quote == Find(line, "\"", pos + 1) IN
        IF end_quote = -1 THEN TokErr("ERRATUM: unclosed string literal")
        ELSE TokenizeFrom(line, end_quote + 1,
                          Append(tokens, Tok("STRING", SubSeq(line, pos + 2, end_quote))),
                          order)
    ELSE IF keyword # "" THEN
        LET pos1 == pos + Len(keyword)
            tokens1 == Append(tokens, KW(keyword))
        IN
        IF keyword = "SIT" THEN
            LET found_var == FirstNomPrefix(From(line, pos1), 1)
                end == UpperRunEnd(line, pos1)
            IN IF found_var # ""
               THEN TokenizeFrom(line, pos1 + Len(found_var),
                                 Append(tokens1, Tok("VARIABLE", found_var)), order)
               ELSE IF end > pos1
               THEN TokenizeFrom(line, end,
                                 Append(tokens1, Tok("VARIABLE", SubSeq(line, pos1 + 1, end))),
                                 order)
               ELSE TokenizeFrom(line, pos1, tokens1, order)
        ELSE TokenizeFrom(line, pos1, tokens1, order)
    ELSE IF StartsWith(rest, "NIHIL") THEN
        TokenizeFrom(line, pos + 5, Append(tokens, NumTok(0)), order)
    ELSE
    LET best == MatchVars(NoMatch, rest, order, 1) IN
    IF best.found THEN
        TokenizeFrom(line, pos + AdjustedLength(line, pos, best),
                     Append(tokens, best.tok), order)
    ELSE
    LET temp_pos == RomanRunEnd(line, pos)
        num == parse(SubSeq(line, pos + 1, temp_pos))
    IN IF temp_pos > pos /\ num.some
       THEN TokenizeFrom(line, temp_pos, Append(tokens, NumTok(num.val)), order)
       ELSE TokErr("ERRATUM: '" \o rest \o "' non intellegitur")

\* Tokenizer.tokenize_line; order is the order in which the iteration over the
\* set declared_vars visits the declared names
tokenize_line(line, order) ==
    LET stripped == Strip(BeforeComment(line)) IN
    IF stripped = "" THEN TokOk(<<>>) ELSE TokenizeFrom(stripped, 0, <<>>, order)

(***************************************************************************)
(* Values and the interpreter state as a record                            *)
(***************************************************************************)

\* Python values held by variables: int, str, and dict (by reference into heap)
IntV(n) == [t |-> "int", i |-> n, s |-> ""]
StrV(x) == [t |-> "str", i |-> 0, s |-> x]
RefV(a) == [t |-> "dict", i |-> a, s |-> ""]

\* the state the handlers read and write, as one record
State ==
    [lines |-> lines, line_index |-> line_index, variables |-> variables, heap |-> heap,
     declared_vars |-> declared_vars, DECLENSIONS |-> DECLENSIONS,
     loop_starts |-> loop_starts, block_depth |-> block_depth, functions |-> functions,
     call_stack |-> call_stack, exception_handlers |-> exception_handlers,
     current_exception |-> current_exception,
     exception_throw_line |-> exception_throw_line,
     skip_handler_pop |-> skip_handler_pop, stdout |-> stdout, stderr |-> stderr,
     var_order |-> var_order, pc |-> pc]

\* dict assignment d[k] = v
Put(d, k, v) == [x \in (DOMAIN d) \cup {k} |-> IF x = k THEN v ELSE d[x]]

\* the error is printed and the run goes on with the next line
FatalThenNextLine(s, msg) ==
    [s EXCEPT !.line_index = @ + 1,
              !.stderr = Append(@, "Error on line " \o ToString(s.line_index + 1)
                                   \o ": " \o msg)]

\* run(): "except Exception as e: print(...); sys.exit(1)"
Fatal(s, msg) ==
    [s EXCEPT !.pc = "exit1",
              !.stderr = Append(@, "Error on line " \o ToString(s.line_index + 1)
                                   \o ": " \o msg)]

\* self.error(latin_msg, english_msg) with use_english_errors = False
Error(s, latin_msg) == Fatal(s, "ERRATUM: " \o latin_msg)

\* a TypeError / AttributeError raised by Python itself on operands of the
\* wrong type; its text is the runtime's, not the source's
PyTypeError(s) == Fatal(s, "TypeError")

\* execute_line returned None: run() does line_index += 1
Continue(s) == [s EXCEPT !.line_index = @ + 1]

\* a jump after which run() would also advance to the next line
JumpThenAdvance(s, target) == [s EXCEPT !.line_index = target + 1]

\* execute_line returned a line number: run() does line_index = jump
Jump(s, target) == [s EXCEPT !.line_index = target]

NotDeclared(s, name) == Error(s, "'" \o name \o "' non declaratur")

\* print(value) / print(to_roman(value)) as SCRIBE, AVDI and NOTA do; a dict is
\* printed as its repr, which the model abstracts to one fixed text
Shown(v) == IF v.t = "int" THEN to_roman(v.i) ELSE IF v.t = "str" THEN v.s ELSE "{...}"

\* Python ==: values of different types are unequal; dicts compare by content
RECURSIVE PyEq(_, _, _)
PyEq(h, a, b) ==
    IF a.t # b.t THEN FALSE
    ELSE IF a.t = "int" THEN a.i = b.i
    ELSE IF a.t = "str" THEN a.s = b.s
    ELSE LET da == h[a.i]
             db == h[b.i]
         IN a.i = b.i \/ (DOMAIN da = DOMAIN db /\ \A k \in DOMAIN da : PyEq(h, da[k], db[k]))

\* the characters this model orders strings by (ASCII order)
Alphabet == " \"ABCDEFGHIJKLMNOPQRSTUVWXYZabcdefghijklmnopqrstuvwxyz"

Ord(c) == LET i == Find(Alphabet, c, 0) IN IF i = -1 THEN Len(Alphabet) ELSE i

\* Python < on str: lexicographic
RECURSIVE StrLess(_, _)
StrLess(a, b) ==
    IF b = "" THEN FALSE
    ELSE IF a = "" THEN TRUE
    ELSE IF Ord(CharAt(a, 0)) # Ord(CharAt(b, 0)) THEN Ord(CharAt(a, 0)) < Ord(CharAt(b, 0))
    ELSE StrLess(From(a, 1), From(b, 1))

\* Python a < b: [ok, val]; ok = FALSE is a TypeError
PyLess(a, b) ==
    IF a.t = "int" /\ b.t = "int" THEN [ok |-> TRUE, val |-> a.i < b.i]
    ELSE IF a.t = "str" /\ b.t = "str" THEN [ok |-> TRUE, val |-> StrLess(a.s, b.s)]
    ELSE [ok |-> FALSE, val |-> FALSE]

(***************************************************************************)
(* Forward block scans                                                     *)
(***************************************************************************)

\* the stripped line the scans inspect: strip, cut the comment, strip
SearchLine(s, idx) == Strip(BeforeComment(Strip(s.lines[idx + 1])))

Opens(search_line, openers) == \E o \in openers : StartsWith(search_line, o)

\* "while search_idx < len(self.lines) and depth > 0": the final search_idx
RECURSIVE ScanLoop(_, _, _, _)
ScanLoop(s, search_idx, depth, openers) ==
    IF search_idx < Len(s.lines) /\ depth > 0
    THEN LET search_line == SearchLine(s, search_idx) IN
         ScanLoop(s, search_idx + 1,
                  IF Opens(search_line, openers) THEN depth + 1
                  ELSE IF search_line = "FINIS" THEN depth - 1 ELSE depth,
                  openers)
    ELSE search_idx

\* the scan of FAC, CAPE, DUM and ALITER from the line after the current one
ScanFinis(s, openers) == ScanLoop(s, s.line_index + 1, 1, openers)

\* the scan of a false SI: stops early at an ALITER seen at depth 1
RECURSIVE ScanSI(_, _, _)
ScanSI(s, search_idx, depth) ==
    IF search_idx < Len(s.lines) /\ depth > 0
    THEN LET search_line == SearchLine(s, search_idx) IN
         IF Opens(search_line, {"SI", "DUM"}) THEN ScanSI(s, search_idx + 1, depth + 1)
         ELSE IF search_line = "ALITER" /\ depth = 1
         THEN [aliter |-> TRUE, search_idx |-> search_idx]
         ELSE IF search_line = "FINIS" THEN ScanSI(s, search_idx + 1, depth - 1)
         ELSE ScanSI(s, search_idx + 1, depth)
    ELSE [aliter |-> FALSE, search_idx |-> search_idx]

(***************************************************************************)
(* LatinInterpreter.execute_line: one operator per statement handler.      *)
(* Each maps the state record and the tokens of the current line to the    *)
(* state after the line, including the line run() continues with.          *)
(***************************************************************************)

NoException == [some |-> FALSE, type |-> "", message |-> ""]
Exception(type, message) == [some |-> TRUE, type |-> type, message |-> message]

Last(q) == q[Len(q)]
Front(q) == SubSeq(q, 1, Len(q) - 1)

\* "if self.loop_starts and self.loop_starts[-1][1] == self.block_depth": pop the
\* frame, re-enter the loop and jump back to its header
LoopBackAnyDepth(s) ==
    IF s.loop_starts # <<>>
    THEN Jump([s EXCEPT !.loop_starts = Front(@), !.block_depth = @ + 1],
              Last(s.loop_starts)[1])
    ELSE Continue(s)

LoopBack(s) ==
    IF s.loop_starts # <<>> /\ Last(s.loop_starts)[2] = s.block_depth
    THEN Jump([s EXCEPT !.loop_starts = Front(@), !.block_depth = @ + 1],
              Last(s.loop_starts)[1])
    ELSE Continue(s)

\* FINIS (end block)
ExecFINIS(s) ==
    LET s1 == [s EXCEPT !.block_depth = @ - 1]
        pops == /\ ~s.skip_handler_pop
                /\ s.exception_handlers # <<>>
                /\ Last(s.exception_handlers)[2] <= s.line_index
        s2 == IF s.skip_handler_pop THEN [s1 EXCEPT !.skip_handler_pop = FALSE]
              ELSE IF pops THEN [s1 EXCEPT !.exception_handlers = Front(@)]
              ELSE s1
    IN IF pops /\ s.exception_throw_line.some
       THEN Jump([s2 EXCEPT !.exception_throw_line = None,
                            !.current_exception = NoException],
                 Len(s.lines))
       ELSE LoopBack(s2)

\* SIT (variable declaration)
\* order is the order in which the set visits its names after the add: any order
\* when the name is new, the order it had when the set does not change
ExecSIT(s, tokens, order) ==
    IF Len(tokens) # 2 \/ tokens[2].type # "VARIABLE"
    THEN Error(s, "Syntax incorrecta post SIT")
    ELSE LET var_name == tokens[2].value IN
         Continue([s EXCEPT
             !.declared_vars = @ \cup {var_name},
             !.var_order = IF var_name \in s.declared_vars THEN @ ELSE order,
             !.variables = Put(@, var_name, IntV(0)),
             !.DECLENSIONS = IF var_name \in DeclKeys THEN @
                            ELSE Append(@, AutoDeclension(var_name))])

\* what SCRIBE, AVDI and NOTA print for their operand token:
\* kind "text" (print it), "undeclared" (error) or "none" (nothing is printed)
OperandText(s, tok) ==
    IF tok.type = "STRING" THEN [kind |-> "text", text |-> tok.value]
    ELSE IF tok.type = "NUMBER" THEN [kind |-> "text", text |-> to_roman(tok.num)]
    ELSE IF tok.type = "VARIABLE"
    THEN IF tok.value \notin DOMAIN s.variables
         THEN [kind |-> "undeclared", text |-> tok.value]
         ELSE [kind |-> "text", text |-> Shown(s.variables[tok.value])]
    ELSE [kind |-> "none", text |-> ""]

\* SCRIBE (print)
ExecSCRIBE(s, tokens) ==
    IF Len(tokens) = 3 /\ tokens[2].type = "VARIABLE" /\ tokens[3].type = "GENITIVE"
    THEN LET field_name == tokens[2].value
             object_name == tokens[3].value
         IN IF object_name \notin DOMAIN s.variables THEN NotDeclared(s, object_name)
            ELSE IF s.variables[object_name].t # "dict"
            THEN Error(s, "'" \o object_name \o "' non est structura")
            ELSE IF field_name \notin DOMAIN s.heap[s.variables[object_name].i]
            THEN Error(s, "Campus '" \o field_name \o "' in '" \o object_name
                          \o "' non existit")
            ELSE Continue([s EXCEPT !.stdout =
                     Append(@, Shown(s.heap[s.variables[object_name].i][field_name]))])
    ELSE IF Len(tokens) # 2 THEN Error(s, "Syntax incorrecta post SCRIBE")
    ELSE LET o == OperandText(s, tokens[2]) IN
         IF o.kind = "undeclared" THEN NotDeclared(s, o.text)
         ELSE IF o.kind = "text" THEN Continue([s EXCEPT !.stdout = Append(@, o.text)])
         ELSE Continue(s)

\* AVDI and NOTA: the prefix is written to stderr before the operand is looked at
ExecDebugPrint(s, tokens, keyword, prefix) ==
    IF Len(tokens) # 2 THEN Error(s, "Syntax incorrecta post " \o keyword)
    ELSE LET s1 == [s EXCEPT !.stderr = Append(@, prefix)]
             o == OperandText(s, tokens[2])
         IN IF o.kind = "undeclared" THEN NotDeclared(s1, o.text)
            ELSE IF o.kind = "text" THEN Continue([s1 EXCEPT !.stderr = Append(@, o.text)])
            ELSE Continue(s1)

\* AVDI (debug print)
ExecAVDI(s, tokens) == ExecDebugPrint(s, tokens, "AVDI", "[DEBUG] ")

\* NOTA (log print)
ExecNOTA(s, tokens) == ExecDebugPrint(s, tokens, "NOTA", "[LOG] ")

\* LEGO (read input); raw_input is the line input() returns
ExecLEGO(s, tokens, raw_input) ==
    IF Len(tokens) # 2 THEN Error(s, "Syntax incorrecta post LEGO")
    ELSE IF tokens[2].type # "VARIABLE" THEN Error(s, "LEGO requirit variabilem")
    ELSE LET var_name == tokens[2].value
             user_input == Strip(raw_input)
             value == parse(user_input)
             unquoted == IF StartsWith(user_input, "\"") /\ EndsWith(user_input, "\"")
                         THEN SubSeq(user_input, 2, Len(user_input) - 1)
                         ELSE user_input
         IN IF var_name \notin DOMAIN s.variables THEN NotDeclared(s, var_name)
            ELSE IF value.some
            THEN Continue([s EXCEPT !.variables = Put(@, var_name, IntV(value.val))])
            ELSE Continue([s EXCEPT !.variables = Put(@, var_name, StrV(unquoted))])

\* the line of the most recent handler, whatever its type
FindHandlerLatest(handlers, type, k) ==
    IF k = 0 THEN None ELSE Some(handlers[k][2])

\* "for handler_type, handler_line in reversed(handlers)": the line of the most
\* recent handler of the given type
RECURSIVE FindHandler(_, _, _)
FindHandler(handlers, type, k) ==
    IF k = 0 THEN None
    ELSE IF handlers[k][1] = type THEN Some(handlers[k][2])
    ELSE FindHandler(handlers, type, k - 1)

\* IACE (throw exception)
ExecIACE(s, tokens) ==
    IF Len(tokens) < 2 THEN Error(s, "IACE requirit nomen exceptionis")
    ELSE IF tokens[2].type # "VARIABLE"
    THEN Error(s, "IACE requirit nomen exceptionis in vocativo")
    ELSE LET exception_name == tokens[2].value
             message == IF Len(tokens) = 3 /\ tokens[3].type = "STRING"
                        THEN tokens[3].value ELSE ""
             s1 == [s EXCEPT !.current_exception = Exception(exception_name, message),
                             !.exception_throw_line = Some(s.line_index + 1)]
             handler == FindHandler(s.exception_handlers, exception_name,
                                    Len(s.exception_handlers))
         IN IF handler.some THEN Jump(s1, handler.val)
            ELSE IF message # "" THEN Error(s1, exception_name \o ": " \o message)
            ELSE Error(s1, exception_name)

\* CAPE (catch exception)
ExecCAPE(s, tokens) ==
    IF Len(tokens) # 2 THEN Error(s, "CAPE requirit nomen exceptionis")
    ELSE IF tokens[2].type # "VARIABLE"
    THEN Error(s, "CAPE requirit nomen exceptionis in vocativo")
    ELSE LET exception_name == tokens[2].value
             s1 == [s EXCEPT
                       !.exception_handlers = Append(@, <<exception_name, s.line_index + 1>>),
                       !.block_depth = @ + 1]
         IN IF s.current_exception.some /\ s.current_exception.type = exception_name
            THEN Continue([s1 EXCEPT !.current_exception = NoException])
            ELSE LET search_idx == ScanFinis(s, {"CAPE", "SI", "DUM"}) IN
                 Jump([s1 EXCEPT !.block_depth = @ + 1, !.skip_handler_pop = TRUE],
                      search_idx - 1)

\* FAC (function definition)
ExecFAC(s, tokens) ==
    IF Len(tokens) < 2 THEN Error(s, "FAC requirit nomen functionis")
    ELSE IF tokens[2].type # "VARIABLE" THEN Error(s, "FAC requirit nomen functionis validum")
    ELSE IF \E i \in 3..Len(tokens) : tokens[i].type # "VARIABLE"
    THEN Error(s, "Parametri debent esse variabiles")
    ELSE LET func_name == tokens[2].value
             params == [i \in 1..(Len(tokens) - 2) |-> tokens[i + 2].value]
             search_idx == ScanFinis(s, {"FAC", "SI", "DUM"})
         IN Jump([s EXCEPT
                     !.functions = Put(@, func_name,
                                       [params |-> params,
                                        start_line |-> s.line_index + 1,
                                        end_line |-> search_idx - 2]),
                     !.block_depth = @ + 1],
                 search_idx - 1)

\* REDDO (return from function)
ExecREDDO(s, tokens) ==
    IF Len(tokens) # 2 THEN Error(s, "REDDO requirit valorem")
    ELSE LET tok == tokens[2] IN
    IF tok.type = "VARIABLE" /\ tok.value \notin DOMAIN s.variables
    THEN NotDeclared(s, tok.value)
    ELSE IF tok.type \notin {"NUMBER", "STRING", "VARIABLE"}
    THEN Error(s, "REDDO requirit numerum, textum, aut variabilem")
    ELSE IF s.call_stack = <<>> THEN Error(s, "REDDO extra functionem")
    ELSE LET return_value == IF tok.type = "NUMBER" THEN IntV(tok.num)
                             ELSE IF tok.type = "STRING" THEN StrV(tok.value)
                             ELSE s.variables[tok.value]
             call_info == Last(s.call_stack)
             has_calling_var == /\ "__CALLING_VAR__" \in DOMAIN s.variables
                                /\ s.variables["__CALLING_VAR__"].s # ""
             restored == call_info.saved_vars
         IN Jump([s EXCEPT
                     !.call_stack = Front(@),
                     !.variables = IF has_calling_var
                                   THEN Put(restored, s.variables["__CALLING_VAR__"].s,
                                            return_value)
                                   ELSE restored],
                 call_info.return_line + 1)

\* DUM (while loop)
ExecDUM(s, tokens) ==
    IF Len(tokens) # 4 THEN Error(s, "Syntax incorrecta in DUM")
    ELSE IF tokens[2].type # "VARIABLE" THEN Error(s, "DUM requirit variabilem")
    ELSE IF tokens[3].value \notin {"AEQUAT", "MAIVS", "MINOR"}
    THEN Error(s, "DUM requirit AEQUAT, MAIVS, aut MINOR")
    ELSE IF tokens[2].value \notin DOMAIN s.variables THEN NotDeclared(s, tokens[2].value)
    ELSE IF tokens[4].type = "VARIABLE" /\ tokens[4].value \notin DOMAIN s.variables
    THEN NotDeclared(s, tokens[4].value)
    ELSE IF tokens[4].type \notin {"NUMBER", "VARIABLE"}
    THEN Error(s, "DUM requirit numerum aut variabilem")
    ELSE LET left_value == s.variables[tokens[2].value]
             right_value == IF tokens[4].type = "NUMBER" THEN IntV(tokens[4].num)
                            ELSE s.variables[tokens[4].value]
             op == tokens[3].value
             cmp == IF op = "MAIVS" THEN PyLess(right_value, left_value)
                    ELSE PyLess(left_value, right_value)
             condition_met == IF op = "AEQUAT" THEN PyEq(s.heap, left_value, right_value)
                              ELSE cmp.val
         IN IF op # "AEQUAT" /\ ~cmp.ok THEN PyTypeError(s)
            ELSE IF ~condition_met
            THEN Jump(s, ScanFinis(s, {"DUM", "SI"}) - 1)
            ELSE Continue([s EXCEPT
                     !.loop_starts = Append(@, <<s.line_index, s.block_depth>>),
                     !.block_depth = @ + 1])

\* ALITER (else): reached when the SI branch was executed
ExecALITER(s) == Jump(s, ScanFinis(s, {"SI", "DUM"}) - 1)

\* SI (conditional)
ExecSI(s, tokens) ==
    IF Len(tokens) # 4 THEN Error(s, "Syntax incorrecta in SI")
    ELSE IF tokens[2].type # "VARIABLE" THEN Error(s, "SI requirit variabilem")
    ELSE IF tokens[3].value \notin {"AEQUAT", "MAIVS", "MINOR"}
    THEN Error(s, "SI requirit AEQUAT, MAIVS, aut MINOR")
    ELSE IF tokens[2].value \notin DOMAIN s.variables THEN NotDeclared(s, tokens[2].value)
    ELSE IF tokens[4].type = "VARIABLE" /\ tokens[4].value \notin DOMAIN s.variables
    THEN NotDeclared(s, tokens[4].value)
    ELSE IF tokens[4].type \notin {"STRING", "NUMBER", "VARIABLE"}
    THEN Error(s, "SI requirit numerum, textum, aut variabilem")
    ELSE LET left_value == s.variables[tokens[2].value]
             right_value == IF tokens[4].type = "STRING" THEN StrV(tokens[4].value)
                            ELSE IF tokens[4].type = "NUMBER" THEN IntV(tokens[4].num)
                            ELSE s.variables[tokens[4].value]
             op == tokens[3].value
             both_int == left_value.t = "int" /\ right_value.t = "int"
             condition_met == IF op = "AEQUAT" THEN PyEq(s.heap, left_value, right_value)
                              ELSE IF op = "MAIVS" THEN left_value.i > right_value.i
                              ELSE left_value.i < right_value.i
             scan == ScanSI(s, s.line_index + 1, 1)
         IN IF op # "AEQUAT" /\ ~both_int THEN Error(s, op \o " requirit numeros")
            ELSE IF ~condition_met
            THEN IF scan.aliter
                 THEN Jump([s EXCEPT !.block_depth = @ + 1], scan.search_idx + 1)
                 ELSE Jump([s EXCEPT !.block_depth = @ + 1], scan.search_idx - 1)
            ELSE Continue([s EXCEPT !.block_depth = @ + 1])

\* the outcome of evaluating a right-hand side: a value, a self.error message,
\* a Python TypeError, or LatinExceptionThrown(line)
Val(v) == [kind |-> "val", val |-> v, msg |-> "", line |-> 0]
Err(msg) == [kind |-> "err", val |-> IntV(0), msg |-> msg, line |-> 0]
PyErr == [kind |-> "pyerr", val |-> IntV(0), msg |-> "", line |-> 0]
Thrown(handler_line) == [kind |-> "throw", val |-> IntV(0), msg |-> "", line |-> handler_line]

UndeclaredMsg(name) == "'" \o name \o "' non declaratur"

\* the first error the operand loop of evaluate_concatenation meets, or ""
RECURSIVE ConcatOperandError(_, _, _)
ConcatOperandError(s, tokens, k) ==
    IF k > Len(tokens) THEN ""
    ELSE IF tokens[k].type = "VARIABLE" /\ tokens[k].value \notin DOMAIN s.variables
    THEN UndeclaredMsg(tokens[k].value)
    ELSE IF tokens[k].type \notin {"STRING", "VARIABLE"}
    THEN "IVNGE requirit textum aut variabiles"
    ELSE ConcatOperandError(s, tokens, k + 1)

\* the value appended for one operand of IVNGE
ConcatOperand(s, tok) ==
    IF tok.type = "STRING" THEN StrV(tok.value)
    ELSE IF s.variables[tok.value].t = "int"
    THEN StrV(to_roman(s.variables[tok.value].i))
    ELSE s.variables[tok.value]

evaluate_concatenation(s, tokens) ==
    IF Len(tokens) # 2 THEN Err("IVNGE requirit duos operandos")
    ELSE IF ConcatOperandError(s, tokens, 1) # "" THEN Err(ConcatOperandError(s, tokens, 1))
    ELSE LET a == ConcatOperand(s, tokens[1])
             b == ConcatOperand(s, tokens[2])
         IN IF a.t = "str" /\ b.t = "str" THEN Val(StrV(a.s \o b.s)) ELSE PyErr

\* str2 in str1
Contains(str1, str2) ==
    \E i \in 0..(Len(str1) - Len(str2)) : StartsWith(From(str1, i), str2)

\* str1.find(str2)
IndexOf(str1, str2) ==
    IF Contains(str1, str2)
    THEN CHOOSE i \in 0..(Len(str1) - Len(str2)) :
             /\ StartsWith(From(str1, i), str2)
             /\ \A j \in 0..(i - 1) : ~StartsWith(From(str1, j), str2)
    ELSE -1

RECURSIVE StringOperandError(_, _, _, _)
StringOperandError(s, op, tokens, k) ==
    IF k > Len(tokens) THEN ""
    ELSE IF tokens[k].type = "VARIABLE" /\ tokens[k].value \notin DOMAIN s.variables
    THEN UndeclaredMsg(tokens[k].value)
    ELSE IF tokens[k].type = "VARIABLE" /\ s.variables[tokens[k].value].t = "int"
    THEN op \o " requirit textum"
    ELSE IF tokens[k].type \notin {"STRING", "VARIABLE"}
    THEN op \o " requirit textum aut variabiles"
    ELSE StringOperandError(s, op, tokens, k + 1)

StringOperand(s, tok) ==
    IF tok.type = "STRING" THEN StrV(tok.value) ELSE s.variables[tok.value]

evaluate_string_operation(s, op, tokens) ==
    IF Len(tokens) # 2 THEN Err(op \o " requirit duos operandos")
    ELSE IF StringOperandError(s, op, tokens, 1) # ""
    THEN Err(StringOperandError(s, op, tokens, 1))
    ELSE LET a == StringOperand(s, tokens[1])
             b == StringOperand(s, tokens[2])
             str1 == a.s
             str2 == b.s
         IN IF a.t # "str" \/ b.t # "str" THEN PyErr
            ELSE IF op = "INCIPITCVM" THEN Val(IntV(IF StartsWith(str1, str2) THEN 1 ELSE 0))
            ELSE IF op = "FINITVRCVM" THEN Val(IntV(IF EndsWith(str1, str2) THEN 1 ELSE 0))
            ELSE IF op = "CONTINET" THEN Val(IntV(IF Contains(str1, str2) THEN 1 ELSE 0))
            ELSE IF op = "INDICEDE"
            THEN Val(IntV(IF IndexOf(str1, str2) # -1 THEN IndexOf(str1, str2) ELSE 0))
            ELSE Val(IntV(0))

RECURSIVE ArithOperandError(_, _, _, _)
ArithOperandError(s, op, tokens, k) ==
    IF k > Len(tokens) THEN ""
    ELSE IF tokens[k].type = "VARIABLE" /\ tokens[k].value \notin DOMAIN s.variables
    THEN UndeclaredMsg(tokens[k].value)
    ELSE IF tokens[k].type \notin {"NUMBER", "VARIABLE"}
    THEN op \o " requirit numeros aut variabiles"
    ELSE ArithOperandError(s, op, tokens, k + 1)

ArithOperand(s, tok) ==
    IF tok.type = "NUMBER" THEN IntV(tok.num) ELSE s.variables[tok.value]

\* Python // on ints (floor division), for a non-zero divisor
FloorDiv(a, b) == IF b > 0 THEN a \div b ELSE (0 - a) \div (0 - b)

evaluate_operation(s, op, tokens) ==
    IF Len(tokens) # 2 THEN Err(op \o " requirit duos operandos")
    ELSE IF ArithOperandError(s, op, tokens, 1) # ""
    THEN Err(ArithOperandError(s, op, tokens, 1))
    ELSE LET a == ArithOperand(s, tokens[1])
             b == ArithOperand(s, tokens[2])
             ints == a.t = "int" /\ b.t = "int"
             handler == FindHandler(s.exception_handlers, "ERROR", Len(s.exception_handlers))
         IN IF op = "ADDE"
            THEN IF ints THEN Val(IntV(a.i + b.i))
                 ELSE IF a.t = "str" /\ b.t = "str" THEN Val(StrV(a.s \o b.s))
                 ELSE PyErr
            ELSE IF op = "DEME"
            THEN IF ints THEN Val(IntV(a.i - b.i)) ELSE PyErr
            ELSE IF op = "MVLTIPLICA"
            THEN IF ints THEN Val(IntV(a.i * b.i))
                 ELSE IF a.t = "str" /\ b.t = "int" THEN Val(StrV(Repeat(a.s, b.i)))
                 ELSE IF a.t = "int" /\ b.t = "str" THEN Val(StrV(Repeat(b.s, a.i)))
                 ELSE PyErr
            ELSE IF op = "DVCE"
            THEN IF b.t = "int" /\ b.i = 0
                 THEN IF s.exception_handlers = <<>> THEN Err("Divisio per nihil")
                      ELSE IF handler.some THEN Thrown(handler.val)
                      ELSE Err("Divisio per nihil")
                 ELSE IF ints THEN Val(IntV(FloorDiv(a.i, b.i))) ELSE PyErr
            ELSE Val(IntV(0))

\* the first error the argument loop of call_function meets, or ""
RECURSIVE ArgError(_, _, _)
ArgError(s, tokens, k) ==
    IF k > Len(tokens) THEN ""
    ELSE IF tokens[k].type = "VARIABLE" /\ tokens[k].value \notin DOMAIN s.variables
    THEN UndeclaredMsg(tokens[k].value)
    ELSE IF tokens[k].type \notin {"NUMBER", "STRING", "VARIABLE"} THEN "Argumenta invalida"
    ELSE ArgError(s, tokens, k + 1)

ArgValue(s, tok) ==
    IF tok.type = "NUMBER" THEN IntV(tok.num)
    ELSE IF tok.type = "STRING" THEN StrV(tok.value)
    ELSE s.variables[tok.value]

\* "for param, arg in zip(params, args): self.variables[param] = arg"
RECURSIVE Bind(_, _, _, _)
Bind(env, params, args, k) ==
    IF k > Len(params) THEN env
    ELSE Bind(Put(env, params[k], args[k]), params, args, k + 1)

\* each argument evaluated when its parameter slot is written, after the slots
\* before it have been overwritten
RECURSIVE BindInPlace(_, _, _, _, _)
BindInPlace(s, env, params, arg_tokens, k) ==
    IF k > Len(params) THEN env
    ELSE BindInPlace(s, Put(env, params[k],
                            ArgValue([s EXCEPT !.variables = env], arg_tokens[k])),
                     params, arg_tokens, k + 1)

call_function_in_place(s, tokens) ==
    IF tokens[1].type # "VARIABLE" THEN Error(s, "VOCA requirit nomen functionis")
    ELSE LET func_name == tokens[1].value IN
    IF func_name \notin DOMAIN s.functions
    THEN Error(s, "Functio '" \o func_name \o "' non definitur")
    ELSE LET func_def == s.functions[func_name]
             params == func_def.params
             arg_tokens == SubSeq(tokens, 2, Len(tokens))
         IN IF ArgError(s, arg_tokens, 1) # "" THEN Error(s, ArgError(s, arg_tokens, 1))
            ELSE IF Len(arg_tokens) # Len(params)
            THEN Error(s, "Functio '" \o func_name \o "' requirit "
                          \o ToString(Len(params)) \o " argumenta")
            ELSE Jump([s EXCEPT
                          !.variables = BindInPlace(s, s.variables, params, arg_tokens, 1),
                          !.call_stack = Append(@, [return_line |-> s.line_index,
                                                    saved_vars |-> s.variables])],
                      func_def.start_line)

\* call_function(tokens): tokens are those after VOCA; s already holds
\* variables['__CALLING_VAR__']
call_function(s, tokens) ==
    IF tokens[1].type # "VARIABLE" THEN Error(s, "VOCA requirit nomen functionis")
    ELSE LET func_name == tokens[1].value IN
    IF func_name \notin DOMAIN s.functions
    THEN Error(s, "Functio '" \o func_name \o "' non definitur")
    ELSE LET func_def == s.functions[func_name]
             params == func_def.params
             arg_tokens == SubSeq(tokens, 2, Len(tokens))
             args == [k \in 1..Len(arg_tokens) |-> ArgValue(s, arg_tokens[k])]
         IN IF ArgError(s, arg_tokens, 1) # "" THEN Error(s, ArgError(s, arg_tokens, 1))
            ELSE IF Len(arg_tokens) # Len(params)
            THEN Error(s, "Functio '" \o func_name \o "' requirit "
                          \o ToString(Len(params)) \o " argumenta")
            ELSE Jump([s EXCEPT
                          !.variables = Bind(s.variables, params, args, 1),
                          !.call_stack = Append(@, [return_line |-> s.line_index,
                                                    saved_vars |-> s.variables])],
                      func_def.start_line)

\* the sequences that enumerate the set S once each
RECURSIVE Orders(_)
Orders(S) ==
    IF S = {} THEN {<<>>}
    ELSE UNION {{<<x>> \o q : q \in Orders(S \ {x})} : x \in S}

\* Field assignment (FIELD GENITIVE EST ...)
ExecFieldAssign(s, tokens) ==
    LET field_name == tokens[1].value
        object_name == tokens[2].value
    IN
    IF object_name \notin DOMAIN s.variables THEN NotDeclared(s, object_name)
    ELSE
    LET s1 == IF s.variables[object_name].t # "dict"
              THEN [s EXCEPT !.heap = Append(@, <<>>),
                             !.variables = Put(@, object_name, RefV(Len(s.heap) + 1))]
              ELSE s
        addr == s1.variables[object_name].i
        Store(v) == Continue([s1 EXCEPT !.heap[addr] = Put(@, field_name, v)])
    IN
    IF Len(tokens) = 4 /\ tokens[4].type = "STRING" THEN Store(StrV(tokens[4].value))
    ELSE IF Len(tokens) = 4 /\ tokens[4].type = "NUMBER" THEN Store(IntV(tokens[4].num))
    ELSE IF Len(tokens) = 4 /\ tokens[4].type = "VARIABLE"
    THEN IF tokens[4].value \notin DOMAIN s1.variables THEN NotDeclared(s1, tokens[4].value)
         ELSE Store(s1.variables[tokens[4].value])
    ELSE IF Len(tokens) = 5 /\ tokens[4].type = "VARIABLE" /\ tokens[5].type = "GENITIVE"
    THEN LET source_field == tokens[4].value
             source_object == tokens[5].value
         IN IF source_object \notin DOMAIN s1.variables THEN NotDeclared(s1, source_object)
            ELSE IF s1.variables[source_object].t # "dict"
            THEN Error(s1, "'" \o source_object \o "' non est structura")
            ELSE IF source_field \notin DOMAIN s1.heap[s1.variables[source_object].i]
            THEN Error(s1, "Campus '" \o source_field \o "' in '" \o source_object
                           \o "' non existit")
            ELSE Store(s1.heap[s1.variables[source_object].i][source_field])
    ELSE Error(s1, "Syntax non cognita")

\* "result = self.evaluate_...(...); self.variables[var_name] = result"
AssignedBeforeThrow(s, var_name, r) ==
    IF r.kind = "val" THEN Continue([s EXCEPT !.variables = Put(@, var_name, r.val)])
    ELSE IF r.kind = "err" THEN Error(s, r.msg)
    ELSE IF r.kind = "pyerr" THEN PyTypeError(s)
    ELSE Jump([s EXCEPT !.current_exception = Exception("ERROR", "Divisio per nihil"),
                        !.exception_throw_line = Some(s.line_index + 1),
                        !.variables = Put(@, var_name, r.val)],
              r.line)

Assigned(s, var_name, r) ==
    IF r.kind = "val" THEN Continue([s EXCEPT !.variables = Put(@, var_name, r.val)])
    ELSE IF r.kind = "err" THEN Error(s, r.msg)
    ELSE IF r.kind = "pyerr" THEN PyTypeError(s)
    ELSE Jump([s EXCEPT !.current_exception = Exception("ERROR", "Divisio per nihil"),
                        !.exception_throw_line = Some(s.line_index + 1)],
              r.line)

\* Assignment (VARIABLE EST ...)
ExecAssign(s, tokens) ==
    LET var_name == tokens[1].value
        n == Len(tokens)
        operands == SubSeq(tokens, 4, n)
    IN
    IF var_name \notin DOMAIN s.variables THEN NotDeclared(s, var_name)
    ELSE IF n = 3 /\ tokens[3].type = "STRING"
    THEN Continue([s EXCEPT !.variables = Put(@, var_name, StrV(tokens[3].value))])
    ELSE IF n = 3 /\ tokens[3].type = "NUMBER"
    THEN Continue([s EXCEPT !.variables = Put(@, var_name, IntV(tokens[3].num))])
    ELSE IF n = 3 /\ tokens[3].type = "VARIABLE"
    THEN IF tokens[3].value \notin DOMAIN s.variables THEN NotDeclared(s, tokens[3].value)
         ELSE Continue([s EXCEPT !.variables = Put(@, var_name, s.variables[tokens[3].value])])
    ELSE IF n >= 4 /\ tokens[3] = KW("IVNGE")
    THEN Assigned(s, var_name, evaluate_concatenation(s, operands))
    ELSE IF n >= 4 /\ tokens[3] \in {KW("INCIPITCVM"), KW("FINITVRCVM"), KW("CONTINET"),
                                     KW("INDICEDE")}
    THEN Assigned(s, var_name, evaluate_string_operation(s, tokens[3].value, operands))
    ELSE IF n >= 4 /\ tokens[3] \in {KW("ADDE"), KW("DEME"), KW("MVLTIPLICA"), KW("DVCE")}
    THEN Assigned(s, var_name, evaluate_operation(s, tokens[3].value, operands))
    ELSE IF n >= 4 /\ tokens[3] = KW("VOCA")
    THEN call_function([s EXCEPT !.variables = Put(@, "__CALLING_VAR__", StrV(var_name))],
                       operands)
    ELSE Error(s, "Syntax incorrecta in assignatione")

\* the statement handler execute_line's chain of tests selects for the tokens
StatementKeywords ==
    {"FINIS", "SIT", "SCRIBE", "AVDI", "NOTA", "LEGO", "IACE", "CAPE", "FAC", "REDDO",
     "DUM", "ALITER", "SI"}

Kind(tokens) ==
    IF tokens = <<>> THEN "EMPTY"
    ELSE IF tokens[1].type = "KEYWORD" /\ tokens[1].value \in StatementKeywords
    THEN tokens[1].value
    ELSE IF Len(tokens) >= 3 /\ tokens[1].type = "VARIABLE" /\ tokens[2].type = "GENITIVE"
            /\ tokens[3] = KW("EST")
    THEN "FIELD"
    ELSE IF Len(tokens) >= 3 /\ tokens[1].type = "VARIABLE" /\ tokens[2] = KW("EST")
    THEN "ASSIGN"
    ELSE "UNKNOWN"

(***************************************************************************)
(* LatinInterpreter.run: the programs, the initial state and the steps     *)
(***************************************************************************)

\* the most lines one run executes
MaxSteps == 20

\* the lines input() may return to LEGO
Inputs == {"V", "AVE"}

\* the source programs that are run, one line per element
CountingLoopSpaced ==
    <<"SIT INDEX",
      "INDEX EST I",
      "DUM INDEX MINOR IV",
      "SCRIBE INDEX",
      "INDEX EST ADDE INDEX I",
      "FINIS">>

CountingLoop ==
    <<"SITINDEX",
      "INDEXESTI",
      "DUMINDEXMINORIV",
      "SCRIBEINDEX",
      "INDEXESTADDEINDEXI",
      "FINIS">>

DoubleSpaced ==
    <<"FAC DUPLEX NUMERUS",
      "REDDO MVLTIPLICA NUMERUS II",
      "FINIS",
      "SIT RESULTAT",
      "RESULTAT EST VOCA DUPLEX III",
      "SCRIBE RESULTATUM">>

DoubleAbutted ==
    <<"FACDUPLEXNUMERUS",
      "REDDOMVLTIPLICANUMERUSII",
      "FINIS",
      "SITRESULTAT",
      "RESULTATESTVOCADUPLEXIII",
      "SCRIBERESULTATUM">>

DoubleDeclared ==
    <<"SITDUPLEX",
      "SITNUMERUS",
      "SITRESULTAT",
      "FACDUPLEXNUMERUS",
      "NUMERUSESTMVLTIPLICANUMERUSII",
      "REDDONUMERUS",
      "FINIS",
      "NUMERUSESTIII",
      "RESULTATESTVOCADUPLEXNUMERUS",
      "SCRIBERESULTATUM">>

LoopThenLine ==
    <<"SITINDEX",
      "DUMINDEXMINORII",
      "INDEXESTADDEINDEXI",
      "FINIS",
      "SCRIBEINDEX">>

LoopNeverEntered ==
    <<"SITINDEX",
      "DUMINDEXMAIVSII",
      "SCRIBEINDEX",
      "FINIS",
      "SCRIBE\"VALE\"">>

NestedLoops ==
    <<"SITINDEX",
      "SITNUMERUS",
      "DUMINDEXMINORII",
      "NUMERUSESTNIHIL",
      "DUMNUMERUSMINORII",
      "NUMERUSESTADDENUMERUSI",
      "FINIS",
      "INDEXESTADDEINDEXI",
      "FINIS",
      "SCRIBEINDEX">>

DeclarationInBranch ==
    <<"SITNUMERUS",
      "SINUMERUSAEQUATI",
      "SITINDEX",
      "FINIS",
      "SCRIBE\"VALE\"">>

DeclarationInLoop ==
    <<"SITNUMERUS",
      "DUMNUMERUSAEQUATI",
      "SITINDEX",
      "FINIS",
      "SCRIBE\"VALE\"">>

DeclarationInFunction ==
    <<"SITDUPLEX",
      "FACDUPLEX",
      "SITINDEX",
      "REDDOI",
      "FINIS",
      "SCRIBE\"VALE\"">>

DeclarationInHandler ==
    <<"SITERROR",
      "CAPEERROR",
      "SITINDEX",
      "FINIS",
      "SCRIBE\"VALE\"">>

DeclarationAfterBranch ==
    <<"SITNUMERUS",
      "SINUMERUSAEQUATNIHIL",
      "SCRIBE\"SIC\"",
      "ALITER",
      "SITINDEX",
      "FINIS",
      "SCRIBE\"VALE\"">>

BranchTaken ==
    <<"SITNUMERUS",
      "SINUMERUSAEQUATNIHIL",
      "SCRIBE\"SIC\"",
      "ALITER",
      "SCRIBE\"NON\"",
      "FINIS",
      "SCRIBE\"VALE\"">>

BranchNotTaken ==
    <<"SITNUMERUS",
      "SINUMERUSMAIVSI",
      "SCRIBE\"SIC\"",
      "ALITER",
      "SCRIBE\"NON\"",
      "FINIS",
      "SCRIBE\"VALE\"">>

BranchInLoop ==
    <<"SITINDEX",
      "DUMINDEXMINORII",
      "SIINDEXAEQUATI",
      "SCRIBE\"I\"",
      "FINIS",
      "INDEXESTADDEINDEXI",
      "FINIS">>

LoopInSkippedBranch ==
    <<"SITINDEX",
      "SIINDEXAEQUATI",
      "DUMINDEXMINORII",
      "INDEXESTADDEINDEXI",
      "FINIS",
      "FINIS",
      "SCRIBEINDEX">>

GenitiveBeforeKeyword ==
    <<"SITRESULTAT",
      "RESULTATIACE">>

AutoDeclensionClash ==
    <<"SITNUMER",
      "SCRIBENUMERI">>

NumeralName ==
    <<"SITNUMERUS",
      "NUMERUSESTLVX",
      "SCRIBENUMERUM">>

NumeralNamePrinted ==
    <<"SCRIBELVX">>

UnknownName ==
    <<"SITNUMERUS",
      "NUMERUSESTIGNOTA">>

UnknownTarget ==
    <<"IGNOTAESTI">>

Catch ==
    <<"SITERROR",
      "SITNUMERUS",
      "CAPEERROR",
      "SCRIBE\"CAPTA\"",
      "FINIS",
      "NUMERUSESTDVCEINIHIL",
      "SCRIBE\"POST\"">>

Throw ==
    <<"SITERROR",
      "CAPEERROR",
      "SCRIBE\"CAPTA\"",
      "FINIS",
      "IACEERROR\"MALUM\"",
      "SCRIBE\"POST\"">>

ThrowUncaught ==
    <<"SITERROR",
      "IACEERROR\"MALUM\"">>

Structure ==
    <<"SITSERVUS",
      "SITNOMEN",
      "NOMENSERVIIEST\"MARCVS\"",
      "SITTEXTUS",
      "TEXTUSSERVIIESTNOMENSERVII",
      "NOMENSERVIIESTTEXTUS",
      "NOMENSERVIIESTV",
      "TEXTUSESTNOMENSERVII">>

ReadInput ==
    <<"SITNUMERUS",
      "LEGONUMERUS",
      "SCRIBENUMERUM",
      "AVDINUMERUM",
      "NOTA\"FINIS\"">>

Comments ==
    <<"; salve",
      "",
      "SITNUMERUS ; declaratio",
      "NUMERUSESTIVNGE\"A\"\"B\"",
      "SCRIBENUMERUM">>

Strings ==
    <<"SITTEXTUS",
      "SITNUMERUS",
      "TEXTUSEST\"AVE\"",
      "NUMERUSESTINCIPITCVMTEXTUS\"A\"",
      "SCRIBENUMERUM",
      "NUMERUSESTINDICEDETEXTUS\"V\"",
      "SCRIBENUMERUM">>

UnknownSyntax ==
    <<"SITNUMERUS",
      "NUMERUS">>

ReturnOutside ==
    <<"REDDOI">>

Arithmetic ==
    <<"SITNUMERUS",
      "NUMERUSESTX",
      "NUMERUSESTDEMENUMERUSIII",
      "SCRIBENUMERUM",
      "NUMERUSESTDVCENUMERUSII",
      "SCRIBENUMERUM",
      "NUMERUSESTDVCENUMERUSNIHIL">>

HandlerSpaced ==
    <<"SIT SUMMA",
      "CAPE ERROR",
      "SCRIBE \"CAPTUS\"",
      "FINIS",
      "SUMMA EST DVCE X NIHIL">>

NoHandlerSpaced ==
    <<"SIT SUMMA",
      "SUMMA EST DVCE X NIHIL">>

HandlerAbutted ==
    <<"SITSUMMA",
      "CAPEERROR",
      "SCRIBE\"CAPTUS\"",
      "FINIS",
      "SUMMAESTDVCEXNIHIL">>

NoHandlerAbutted ==
    <<"SITSUMMA",
      "SUMMAESTDVCEXNIHIL">>

HandlerDeclared ==
    <<"SITSUMMA",
      "SITERROR",
      "CAPEERROR",
      "SCRIBE\"CAPTUS\"",
      "FINIS",
      "SUMMAESTDVCEXNIHIL">>

RecordSpaced ==
    <<"SIT SERVUS",
      "NOMEN SERVII EST \"MARCUS\"",
      "SCRIBE NOMEN SERVII">>

RecordAbutted ==
    <<"SITSERVUS",
      "NOMENSERVIIEST\"MARCUS\"",
      "SCRIBENOMENSERVII">>

RecordDeclared ==
    <<"SITSERVUS",
      "SITNOMEN",
      "NOMENSERVIIEST\"MARCUS\"",
      "SCRIBENOMENSERVII">>

TwoHandlers ==
    <<"SITERROR",
      "SITNUMERUS",
      "CAPEERROR",
      "SCRIBE\"ERROR\"",
      "FINIS",
      "CAPENUMERUS",
      "SCRIBE\"NUMERUS\"",
      "FINIS",
      "IACEERROR\"MALUM\"",
      "SCRIBE\"POST\"">>

ThrowToLatest ==
    <<"SITERROR",
      "SITNUMERUS",
      "CAPEERROR",
      "SCRIBE\"ERROR\"",
      "FINIS",
      "CAPENUMERUS",
      "SCRIBE\"NUMERUS\"",
      "FINIS",
      "IACENUMERUM",
      "SCRIBE\"POST\"">>

ThrowPastOther ==
    <<"SITERROR",
      "SITNUMERUS",
      "CAPENUMERUS",
      "SCRIBE\"NUMERUS\"",
      "FINIS",
      "IACEERROR\"MALUM\"",
      "SCRIBE\"POST\"">>

ThrowPastOtherBare ==
    <<"SITERROR",
      "SITNUMERUS",
      "CAPENUMERUS",
      "SCRIBE\"NUMERUS\"",
      "FINIS",
      "IACEERROR",
      "SCRIBE\"POST\"">>

DivisionTwoHandlers ==
    <<"SITERROR",
      "SITNUMERUS",
      "CAPEERROR",
      "SCRIBE\"ERROR\"",
      "FINIS",
      "CAPENUMERUS",
      "SCRIBE\"NUMERUS\"",
      "FINIS",
      "NUMERUSESTV",
      "NUMERUSESTDVCEXNIHIL",
      "SCRIBE\"POST\"">>

DivisionOtherHandler ==
    <<"SITERROR",
      "SITNUMERUS",
      "CAPENUMERUS",
      "SCRIBE\"NUMERUS\"",
      "FINIS",
      "NUMERUSESTDVCEXNIHIL",
      "SCRIBE\"POST\"">>

NestedCall ==
    <<"SITDUPLEX",
      "SITSUMMA",
      "SITRESULTAT",
      "SITINDEX",
      "FACSUMMA",
      "REDDOV",
      "FINIS",
      "FACDUPLEX",
      "INDEXESTVOCASUMMA",
      "REDDOX",
      "FINIS",
      "RESULTATESTVOCADUPLEX",
      "SCRIBERESULTATUM",
      "SCRIBEINDEX">>

SimpleCall ==
    <<"SITDUPLEX",
      "SITRESULTAT",
      "FACDUPLEX",
      "REDDOX",
      "FINIS",
      "RESULTATESTVOCADUPLEX",
      "SCRIBERESULTATUM">>

InnerLoopNeverEntered ==
    <<"SITINDEX",
      "SITNUMERUS",
      "DUMINDEXMINORII",
      "DUMNUMERUSAEQUATI",
      "SCRIBE\"INTVS\"",
      "FINIS",
      "INDEXESTADDEINDEXI",
      "FINIS",
      "SCRIBEINDEX">>

Greater ==
    <<"SITPRIMUS",
      "PRIMUSESTV",
      "SIPRIMUSMAIVSIII",
      "SCRIBE\"MAIOR\"",
      "ALITER",
      "SCRIBE\"MINOR\"",
      "FINIS">>

NestedBranches ==
    <<"SITNUMERUS",
      "SINUMERUSAEQUATI",
      "SINUMERUSAEQUATNIHIL",
      "SCRIBE\"A\"",
      "ALITER",
      "SCRIBE\"B\"",
      "FINIS",
      "ALITER",
      "SINUMERUSAEQUATNIHIL",
      "SCRIBE\"C\"",
      "ALITER",
      "SCRIBE\"D\"",
      "FINIS",
      "FINIS",
      "SCRIBE\"VALE\"">>

BranchInHandler ==
    <<"SITERROR",
      "SITNUMERUS",
      "CAPEERROR",
      "SINUMERUSAEQUATNIHIL",
      "SCRIBE\"SIC\"",
      "ALITER",
      "SCRIBE\"NON\"",
      "FINIS",
      "SCRIBE\"CAPTA\"",
      "FINIS",
      "IACEERROR">>

BranchAfterHandler ==
    <<"SITERROR",
      "SITNUMERUS",
      "CAPEERROR",
      "SCRIBE\"CAPTA\"",
      "FINIS",
      "SINUMERUSAEQUATNIHIL",
      "SCRIBE\"SIC\"",
      "FINIS",
      "IACEERROR\"MALUM\"">>

ArityMismatch ==
    <<"SITDUPLEX",
      "SITRESULTAT",
      "FACDUPLEX",
      "REDDOX",
      "FINIS",
      "RESULTATESTVOCADUPLEX\"A\"",
      "SCRIBERESULTATUM">>

TypeMismatch ==
    <<"SITTEXTUS",
      "TEXTUSEST\"A\"",
      "TEXTUSESTDEMETEXTUSI",
      "SCRIBETEXTUM">>

UndeclaredAfterReturn ==
    <<"SITDUPLEX",
      "SITINDEX",
      "FACDUPLEX",
      "SITNUMERUS",
      "REDDOX",
      "FINIS",
      "FINIS",
      "INDEXESTVOCADUPLEX",
      "SCRIBENUMERUM",
      "SCRIBEINDEX">>

RecordInCall ==
    <<"SITSERVUS",
      "SITNOMEN",
      "SITDUPLEX",
      "SITRESULTAT",
      "NOMENSERVIIEST\"A\"",
      "FACDUPLEX",
      "NOMENSERVIIEST\"B\"",
      "REDDOI",
      "FINIS",
      "RESULTATESTVOCADUPLEX",
      "SCRIBENOMENSERVII">>

VariableInCall ==
    <<"SITDUPLEX",
      "SITRESULTAT",
      "SITINDEX",
      "INDEXESTV",
      "FACDUPLEX",
      "INDEXESTX",
      "REDDOI",
      "FINIS",
      "RESULTATESTVOCADUPLEX",
      "SCRIBEINDEX">>

SwapArguments ==
    <<"SITDUPLEX",
      "SITPRIMUS",
      "SITSECUNDUS",
      "SITRESULTAT",
      "PRIMUSESTI",
      "SECUNDUSESTII",
      "FACDUPLEXPRIMOSECUNDO",
      "SCRIBEPRIMUM",
      "SCRIBESECUNDUM",
      "REDDOPRIMUM",
      "FINIS",
      "RESULTATESTVOCADUPLEXSECUNDUMPRIMUM",
      "SCRIBERESULTATUM",
      "SCRIBEPRIMUM">>

UndefinedFunction ==
    <<"SITDUPLEX",
      "SITRESULTAT",
      "RESULTATESTVOCADUPLEX">>

MissingArgument ==
    <<"SITDUPLEX",
      "SITRESULTAT",
      "SITPRIMUS",
      "FACDUPLEXPRIMO",
      "REDDOPRIMUM",
      "FINIS",
      "RESULTATESTVOCADUPLEX">>

BranchOnText ==
    <<"SITNOMEN",
      "NOMENEST\"A\"",
      "SINOMENAEQUAT\"A\"",
      "SCRIBE\"SIC\"",
      "FINIS">>

LoopOnText ==
    <<"SITNOMEN",
      "NOMENEST\"A\"",
      "DUMNOMENAEQUAT\"A\"",
      "SCRIBE\"SIC\"",
      "NOMENEST\"B\"",
      "FINIS">>

TextOrder ==
    <<"SITNOMEN",
      "SITVERBUM",
      "NOMENEST\"A\"",
      "VERBUMEST\"B\"",
      "DUMNOMENMINORVERBUM",
      "SCRIBE\"SIC\"",
      "NOMENEST\"C\"",
      "FINIS">>

RecordFirstDeclension ==
    <<"SITPERSONA",
      "SITNOMEN",
      "NOMENPERSONAEEST\"MARCVS\"",
      "SCRIBENOMENPERSONAE">>

AutoDeclensions ==
    <<"SITADDITOR",
      "SITRATIO",
      "ADDITORESTV",
      "SCRIBEADDITOREM",
      "SCRIBERATIONEM",
      "SITNUMERUS",
      "SCRIBENUMERUM">>

TextSum ==
    <<"SITTEXTUS",
      "SITNUMERUS",
      "TEXTUSEST\"A\"",
      "NUMERUSESTADDETEXTUSTEXTUS",
      "SCRIBENUMERUM">>

TextProduct ==
    <<"SITTEXTUS",
      "SITNUMERUS",
      "TEXTUSEST\"A\"",
      "NUMERUSESTMVLTIPLICATEXTUSIII",
      "SCRIBENUMERUM">>

RecordSum ==
    <<"SITSERVUS",
      "SITNOMEN",
      "SITNUMERUS",
      "NOMENSERVIIEST\"A\"",
      "NUMERUSESTADDESERVUSI",
      "SCRIBENUMERUM">>

RecordCopySource ==
    <<"SITSERVUS",
      "SITAMICUS",
      "SITNOMEN",
      "NOMENSERVIIEST\"A\"",
      "AMICUSESTSERVUS",
      "NOMENSERVIIEST\"B\"",
      "SCRIBENOMENAMICI">>

RecordCopyTarget ==
    <<"SITSERVUS",
      "SITAMICUS",
      "SITNOMEN",
      "NOMENSERVIIEST\"A\"",
      "AMICUSESTSERVUS",
      "NOMENAMICIEST\"B\"",
      "SCRIBENOMENSERVII">>

FormTie ==
    <<"SITNUMER",
      "SITNUMERUS",
      "NUMERUSESTV",
      "SCRIBENUMERO">>

AliterOnLastLine ==
    <<"SITNUMERUS",
      "SINUMERUSAEQUATI",
      "SCRIBE\"SIC\"",
      "ALITER">>

BranchOnLastLine ==
    <<"SITNUMERUS",
      "SINUMERUSAEQUATI">>

CallOnLastLine ==
    <<"SITDUPLEX",
      "SITINDEX",
      "FACDUPLEX",
      "REDDOX",
      "FINIS",
      "INDEXESTVOCADUPLEX">>

HandlerOnLastLine ==
    <<"SITERROR",
      "CAPEERROR">>

Programs ==
    {CountingLoopSpaced, CountingLoop, DoubleSpaced, DoubleAbutted, DoubleDeclared,
     LoopThenLine, LoopNeverEntered, NestedLoops, DeclarationInBranch,
     DeclarationInLoop, DeclarationInFunction, DeclarationInHandler,
     DeclarationAfterBranch, BranchTaken, BranchNotTaken, BranchInLoop,
     LoopInSkippedBranch, GenitiveBeforeKeyword, AutoDeclensionClash, NumeralName,
     NumeralNamePrinted, UnknownName, UnknownTarget, Catch, Throw, ThrowUncaught,
     Structure, ReadInput, Comments, Strings, UnknownSyntax, ReturnOutside, Arithmetic,
     HandlerSpaced, NoHandlerSpaced, HandlerAbutted, NoHandlerAbutted, HandlerDeclared,
     RecordSpaced, RecordAbutted, RecordDeclared, TwoHandlers, ThrowToLatest,
     ThrowPastOther, ThrowPastOtherBare, DivisionTwoHandlers, DivisionOtherHandler,
     NestedCall, SimpleCall, InnerLoopNeverEntered, Greater, NestedBranches,
     BranchInHandler, BranchAfterHandler, ArityMismatch, TypeMismatch,
     UndeclaredAfterReturn, RecordInCall, VariableInCall, SwapArguments,
     UndefinedFunction, MissingArgument, BranchOnText, LoopOnText, TextOrder,
     RecordFirstDeclension, AutoDeclensions, TextSum, TextProduct, RecordSum,
     RecordCopySource, RecordCopyTarget, FormTie, AliterOnLastLine, BranchOnLastLine,
     CallOnLastLine, HandlerOnLastLine}

\* the state of the interpreter after __init__ and the first two lines of run()
Constructed(source) ==
    /\ lines = source
    /\ line_index = 0
    /\ variables = <<>>
    /\ heap = <<>>
    /\ declared_vars = {}
    /\ DECLENSIONS = BuiltinDeclensions
    /\ loop_starts = <<>>
    /\ block_depth = 0
    /\ functions = <<>>
    /\ call_stack = <<>>
    /\ exception_handlers = <<>>
    /\ current_exception = NoException
    /\ exception_throw_line = None
    /\ skip_handler_pop = FALSE
    /\ stdout = <<>>
    /\ stderr = <<>>
    /\ var_order = <<>>
    /\ pc = "run"
    /\ steps = 0

NoProbe == [stage |-> "none"]

Init == /\ \E source \in Programs : Constructed(source)
        /\ probe = NoProbe

\* the interpreter variables take the values of the record r
Update(r) ==
    /\ lines' = r.lines
    /\ line_index' = r.line_index
    /\ variables' = r.variables
    /\ heap' = r.heap
    /\ declared_vars' = r.declared_vars
    /\ DECLENSIONS' = r.DECLENSIONS
    /\ loop_starts' = r.loop_starts
    /\ block_depth' = r.block_depth
    /\ functions' = r.functions
    /\ call_stack' = r.call_stack
    /\ exception_handlers' = r.exception_handlers
    /\ current_exception' = r.current_exception
    /\ exception_throw_line' = r.exception_throw_line
    /\ skip_handler_pop' = r.skip_handler_pop
    /\ stdout' = r.stdout
    /\ stderr' = r.stderr
    /\ var_order' = r.var_order
    /\ pc' = r.pc
    /\ steps' = steps + 1
    /\ UNCHANGED probe

\* "while self.line_index < len(self.lines)" holds
InLoop == pc = "run" /\ line_index < Len(lines) /\ steps < MaxSteps

\* "line = self.lines[self.line_index].strip()" without its comment
CurLine == Strip(BeforeComment(Strip(lines[line_index + 1])))

\* the keyword the line starts with: the value of its first token when it is a keyword
LeadingKeyword(line) == IF StartsWith(line, "\"") THEN "" ELSE FirstKeyword(line, 1)

Tokens == tokenize_line(CurLine, var_order)

\* run() reaches execute_line with a line that starts as the given kind does
Fetch(kind) ==
    /\ InLoop
    /\ CurLine # ""
    /\ IF kind \in StatementKeywords THEN LeadingKeyword(CurLine) = kind
       ELSE LeadingKeyword(CurLine) \notin StatementKeywords

\* execute_line reaches the handler of the given kind with the tokens of result t
Dispatch(kind, t, Handle(_)) == t.ok /\ Kind(t.tokens) = kind /\ Handle(t.tokens)

\* the while condition fails: run() returns and the process exits with status 0
Halt ==
    /\ pc = "run"
    /\ line_index >= Len(lines)
    /\ pc' = "exit0"
    /\ UNCHANGED <<lines, line_index, variables, heap, declared_vars, DECLENSIONS,
                   loop_starts, block_depth, functions, call_stack, exception_handlers,
                   current_exception, exception_throw_line, skip_handler_pop, stdout,
                   stderr, var_order, steps, probe>>

\* "if not line: self.line_index += 1; continue"
SkipEmptyLine == InLoop /\ CurLine = "" /\ Update(Continue(State))

\* the tokenizer raises: run() prints the error and exits with status 1
Raise(t) == ~t.ok /\ Update(Fatal(State, t.err))

TokenizeError == InLoop /\ CurLine # "" /\ Raise(Tokens)

StepFINIS ==
    Fetch("FINIS") /\ Dispatch("FINIS", Tokens, LAMBDA tokens : Update(ExecFINIS(State)))

StepSIT ==
    /\ Fetch("SIT")
    /\ Dispatch("SIT", Tokens,
                LAMBDA tokens : \E order \in Orders(declared_vars \cup {Last(tokens).value}) :
                                    Update(ExecSIT(State, tokens, order)))

StepSCRIBE ==
    /\ Fetch("SCRIBE")
    /\ Dispatch("SCRIBE", Tokens, LAMBDA tokens : Update(ExecSCRIBE(State, tokens)))

StepAVDI ==
    Fetch("AVDI") /\ Dispatch("AVDI", Tokens, LAMBDA tokens : Update(ExecAVDI(State, tokens)))

StepNOTA ==
    Fetch("NOTA") /\ Dispatch("NOTA", Tokens, LAMBDA tokens : Update(ExecNOTA(State, tokens)))

StepLEGO ==
    /\ Fetch("LEGO")
    /\ Dispatch("LEGO", Tokens,
                LAMBDA tokens : \E raw_input \in Inputs :
                                    Update(ExecLEGO(State, tokens, raw_input)))

StepIACE ==
    Fetch("IACE") /\ Dispatch("IACE", Tokens, LAMBDA tokens : Update(ExecIACE(State, tokens)))

StepCAPE ==
    Fetch("CAPE") /\ Dispatch("CAPE", Tokens, LAMBDA tokens : Update(ExecCAPE(State, tokens)))

StepFAC ==
    Fetch("FAC") /\ Dispatch("FAC", Tokens, LAMBDA tokens : Update(ExecFAC(State, tokens)))

StepREDDO ==
    /\ Fetch("REDDO")
    /\ Dispatch("REDDO", Tokens, LAMBDA tokens : Update(ExecREDDO(State, tokens)))

StepDUM ==
    Fetch("DUM") /\ Dispatch("DUM", Tokens, LAMBDA tokens : Update(ExecDUM(State, tokens)))

StepALITER ==
    Fetch("ALITER") /\ Dispatch("ALITER", Tokens, LAMBDA tokens : Update(ExecALITER(State)))

StepSI ==
    Fetch("SI") /\ Dispatch("SI", Tokens, LAMBDA tokens : Update(ExecSI(State, tokens)))

StepFieldAssign ==
    /\ Fetch("FIELD")
    /\ Dispatch("FIELD", Tokens, LAMBDA tokens : Update(ExecFieldAssign(State, tokens)))

StepAssign ==
    /\ Fetch("ASSIGN")
    /\ Dispatch("ASSIGN", Tokens, LAMBDA tokens : Update(ExecAssign(State, tokens)))

\* "self.error("Syntax non cognita", ...)" at the end of execute_line
StepUnknown ==
    /\ Fetch("UNKNOWN")
    /\ Dispatch("UNKNOWN", Tokens,
                LAMBDA tokens : Update(Error(State, "Syntax non cognita")))

Next ==
    \/ Halt
    \/ SkipEmptyLine
    \/ TokenizeError
    \/ StepFINIS
    \/ StepSIT
    \/ StepSCRIBE
    \/ StepAVDI
    \/ StepNOTA
    \/ StepLEGO
    \/ StepIACE
    \/ StepCAPE
    \/ StepFAC
    \/ StepREDDO
    \/ StepDUM
    \/ StepALITER
    \/ StepSI
    \/ StepFieldAssign
    \/ StepAssign
    \/ StepUnknown

Spec == Init /\ [][Next]_vars

(***************************************************************************)
(* The Roman numeral codec on its own: to_roman, then parse of its result  *)
(***************************************************************************)

\* the integers handed to to_roman: (1 - Below) .. MaxNum
Below == 3
MaxNum == 4000

interpreter ==
    <<lines, line_index, variables, heap, declared_vars, DECLENSIONS, loop_starts,
      block_depth, functions, call_stack, exception_handlers, current_exception,
      exception_throw_line, skip_handler_pop, stdout, stderr, var_order, pc, steps>>

InitRoman ==
    /\ Constructed(<<>>)
    /\ \E n \in (1 - Below)..MaxNum :
           probe = [stage |-> "input", num |-> n, roman |-> "", parsed |-> None]

ToRoman ==
    /\ probe.stage = "input"
    /\ probe' = [probe EXCEPT !.stage = "formatted", !.roman = to_roman(probe.num)]
    /\ UNCHANGED interpreter

Parse ==
    /\ probe.stage = "formatted"
    /\ probe' = [probe EXCEPT !.stage = "parsed", !.parsed = parse(probe.roman)]
    /\ UNCHANGED interpreter

NextRoman == ToRoman \/ Parse

SpecRoman == InitRoman /\ [][NextRoman]_vars

\* the texts handed to parse: every string of at most MaxLen characters over the
\* seven numeral letters and one other letter
MaxLen == 4

RECURSIVE Texts(_)
Texts(n) ==
    IF n = 0 THEN {""}
    ELSE LET S == Texts(n - 1) IN S \cup {s \o c : s \in S, c \in RomanLetters \cup {"A"}}

\* the numerals in which every character but the last is subtracted: the
\* subsequences of IVXLCDM, the texts for which the total is least
RECURSIVE Chains(_)
Chains(k) ==
    IF k = 0 THEN {""}
    ELSE Chains(k - 1) \cup {s \o CharAt("IVXLCDM", k - 1) : s \in Chains(k - 1)}

InitParse ==
    /\ Constructed(<<>>)
    /\ \E text \in Texts(MaxLen) \cup Chains(7) :
           probe = [stage |-> "text", num |-> 0, roman |-> text, parsed |-> None]

ParseText ==
    /\ probe.stage = "text"
    /\ probe' = [probe EXCEPT !.stage = "parsed", !.parsed = parse(probe.roman)]
    /\ UNCHANGED interpreter

SpecParse == InitParse /\ [][ParseText]_vars

(***************************************************************************)
(* Properties                                                              *)
(***************************************************************************)

\* C1: for every integer n >= 1, parse(to_roman(n)) = n, and for every integer
\* n <= 0, to_roman(n) is the literal "NIHIL".
RoundTrip ==
    /\ (probe.stage \in {"formatted", "parsed"} /\ probe.num <= 0) => probe.roman = "NIHIL"
    /\ (probe.stage = "parsed" /\ probe.num >= 1) => probe.parsed = Some(probe.num)

\* 1994 was formatted with three subtractive pairs and parsed back
RoundTripDone ==
    /\ probe.stage = "parsed"
    /\ probe.num = 1994
    /\ probe.roman = "MCMXCIV"
    /\ probe.parsed = Some(1994)

\* C2: after a run that ends normally, block_depth is 0 and the loop stack and the
\* call stack are empty.
CleanAtNormalEnd ==
    pc = "exit0" => (block_depth = 0 /\ loop_starts = <<>> /\ call_stack = <<>>)

\* the statement keyword of line i (0-based) of the program
StatementAt(i) == LeadingKeyword(Strip(BeforeComment(Strip(lines[i + 1]))))

BlockOpeners == {"SI", "DUM", "FAC", "CAPE"}

\* the number of blocks that are open before line i of the program
RECURSIVE StaticDepth(_)
StaticDepth(i) ==
    IF i = 0 THEN 0
    ELSE IF StatementAt(i - 1) \in BlockOpeners THEN StaticDepth(i - 1) + 1
    ELSE IF StatementAt(i - 1) = "FINIS" THEN StaticDepth(i - 1) - 1
    ELSE StaticDepth(i - 1)

\* every FINIS closes an open block and every block is closed
WellNested ==
    /\ \A i \in 0..Len(lines) : StaticDepth(i) >= 0
    /\ StaticDepth(Len(lines)) = 0

\* where a scan that starts before line i with the given depth has to stop: the
\* FINIS that brings the depth to 0, or the line after an ALITER met at depth 1
RECURSIVE Terminator(_, _, _)
Terminator(i, depth, to_aliter) ==
    IF i >= Len(lines) THEN Len(lines)
    ELSE IF StatementAt(i) \in BlockOpeners THEN Terminator(i + 1, depth + 1, to_aliter)
    ELSE IF StatementAt(i) = "ALITER" /\ depth = 1 /\ to_aliter THEN i + 1
    ELSE IF StatementAt(i) = "FINIS"
    THEN IF depth = 1 THEN i ELSE Terminator(i + 1, depth - 1, to_aliter)
    ELSE Terminator(i + 1, depth, to_aliter)

\* the step is a forward block-scan: FAC and ALITER always scan; SI, DUM and CAPE
\* scan when they do not continue with the next line
ForwardScan ==
    /\ pc = "run" /\ pc' = "run" /\ steps' = steps + 1
    /\ line_index < Len(lines)
    /\ \/ StatementAt(line_index) \in {"FAC", "ALITER"}
       \/ StatementAt(line_index) \in {"SI", "DUM", "CAPE"} /\ line_index' # line_index + 1

\* C3: each forward block-scan (SI with false condition, ALITER, DUM with false
\* condition, FAC, CAPE skip) of a well-nested program stops at the FINIS that
\* matches its origin (for SI: or at an ALITER at relative depth 1), whatever
\* statements the body contains.
ScanStopsAtMatchingFinis ==
    [][(ForwardScan /\ WellNested)
         => line_index' = Terminator(line_index + 1, 1, StatementAt(line_index) = "SI")]_vars

\* C4: for every declared name N and every keyword K, the text N immediately
\* followed by K tokenizes as exactly Variable(N), Keyword(K).
NameThenKeyword ==
    \A N \in declared_vars : \A K \in KeywordSet :
        tokenize_line(N \o K, var_order) = TokOk(<<Tok("VARIABLE", N), KW(K)>>)

\* C5: for every key N of the declension table (built-in or added by SIT) and
\* every oblique case c, get_nominative of the c-form of N is N.
NominativeOfForm ==
    \A k \in 1..Len(DECLENSIONS) : \A c \in Cases :
        FormOf(DECLENSIONS[k], c) # ""
            => get_nominative(FormOf(DECLENSIONS[k], c)) = Some(DECLENSIONS[k].nom)

\* the program's only blocks are DUM loops
OnlyLoops == \A i \in 0..(Len(lines) - 1) : StatementAt(i) \notin {"SI", "ALITER", "FAC", "CAPE"}

\* C6: once a block that was entered has been left for good, block_depth equals
\* the value it had before the block-opening statement: in a well-nested program
\* of DUM loops, at a line outside every loop (and not a loop header) that was
\* reached after a loop body ran (more lines were executed than lie before it),
\* block_depth is again 0.
DepthRestored ==
    (/\ pc = "run"
     /\ WellNested /\ OnlyLoops
     /\ StaticDepth(line_index) = 0
     /\ line_index < Len(lines) => StatementAt(line_index) # "DUM"
     /\ steps > line_index)
        => block_depth = 0

\* C7: loop frames are removed in LIFO order (the loop stack changes only by a
\* push or by a pop of its last frame), and a popped frame's recorded depth
\* equals block_depth after the decrement FINIS has just made.
FramesPoppedInOrder ==
    [][loop_starts' # loop_starts
         => \/ Front(loop_starts') = loop_starts /\ Len(loop_starts') = Len(loop_starts) + 1
            \/ /\ loop_starts # <<>>
               /\ loop_starts' = Front(loop_starts)
               /\ StatementAt(line_index) = "FINIS"
               /\ Last(loop_starts)[2] = block_depth - 1]_vars

\* the inner loop's frame was popped by its FINIS, the jump went back to the inner
\* header, and the frame of the enclosing loop is still the only one on the stack
InnerFramePopped ==
    /\ pc = "run"
    /\ lines = NestedLoops
    /\ line_index = 4
    /\ variables["NUMERUS"] = IntV(1)
    /\ loop_starts = <<<<2, 0>>>>

\* names a program may give its variables
Names == {"LVX", "IGNOTA"}

\* the current line reads or assigns a variable that no executed SIT has declared
UsesUndeclared ==
    \E x \in Names \ declared_vars : \E v \in declared_vars \cup {""} :
        CurLine \in {"SCRIBE" \o x, "AVDI" \o x, "NOTA" \o x, "LEGO" \o x,
                     v \o "EST" \o x, x \o "ESTI"}

\* C8: a statement that reads or assigns a variable that has not been declared by
\* an executed SIT ends in a fatal error and changes no variable.
UndeclaredIsFatal ==
    [][(pc = "run" /\ line_index < Len(lines) /\ UsesUndeclared /\ steps' = steps + 1)
         => (pc' = "exit1" /\ variables' = variables)]_vars

\* C9: the program SIT INDEX / INDEX EST I / DUM INDEX MINOR IV / SCRIBE INDEX /
\* INDEX EST ADDE INDEX I / FINIS prints exactly I, II, III and terminates normally.
CountingLoopPrints ==
    (lines = CountingLoopSpaced /\ pc # "run")
        => (pc = "exit0" /\ stdout = <<"I", "II", "III">>)

\* C10: the program FAC DUPLEX NUMERUS / REDDO MVLTIPLICA NUMERUS II / FINIS /
\* SIT RESULTAT / RESULTAT EST VOCA DUPLEX III / SCRIBE RESULTATUM prints VI and
\* terminates normally.
DoublePrints ==
    (lines = DoubleSpaced /\ pc # "run") => (pc = "exit0" /\ stdout = <<"VI">>)

\* the text run() printed to stderr when it caught an error on line n (1-based)
ErrorOnLine(n, msg) == "Error on line " \o ToString(n) \o ": " \o msg

\* C11: the program SIT SUMMA / CAPE ERROR / SCRIBE "CAPTUS" / FINIS /
\* SUMMA EST DVCE X NIHIL prints CAPTUS when the division executes; the program
\* SIT SUMMA / SUMMA EST DVCE X NIHIL exits with status 1 and the message
\* Divisio per nihil.
DivisionCaughtOrFatal ==
    /\ (lines = HandlerSpaced /\ pc # "run") => stdout = <<"CAPTUS">>
    /\ (lines = NoHandlerSpaced /\ pc # "run")
           => (pc = "exit1" /\ stderr = <<ErrorOnLine(2, "ERRATUM: Divisio per nihil")>>)

\* C12: the program SIT SERVUS / NOMEN SERVII EST "MARCUS" / SCRIBE NOMEN SERVII,
\* which declares only SERVUS, prints MARCUS: the record is created by the first
\* field assignment and the field reads back the assigned value.
RecordPrints ==
    /\ (lines = RecordSpaced /\ pc # "run") => (pc = "exit0" /\ stdout = <<"MARCUS">>)
    /\ (lines = RecordAbutted /\ pc # "run") => (pc = "exit0" /\ stdout = <<"MARCUS">>)

\* the positions of the handlers installed for the exception name E, and the
\* most recently installed of a non-empty set of positions
HandlersNamed(E) == {k \in DOMAIN exception_handlers : exception_handlers[k][1] = E}
Latest(S) == CHOOSE k \in S : \A j \in S : j <= k

\* the current line is a statement IACE E or IACE E "message"
IsThrow ==
    /\ pc = "run" /\ line_index < Len(lines)
    /\ StatementAt(line_index) = "IACE"
    /\ Tokens.ok
    /\ Len(Tokens.tokens) \in {2, 3}
    /\ Tokens.tokens[2].type = "VARIABLE"
    /\ Len(Tokens.tokens) = 3 => Tokens.tokens[3].type = "STRING"

\* C13: IACE E transfers control to the body-start line of the most recently
\* installed handler whose name is exactly E, passing over more recent handlers
\* with other names; if no handler has the name E the run ends in a fatal error
\* that carries E and the message.
ThrowFindsHandler ==
    [][(IsThrow /\ steps' = steps + 1)
         => LET E == Tokens.tokens[2].value
                message == IF Len(Tokens.tokens) = 3 THEN Tokens.tokens[3].value ELSE ""
                text == IF message = "" THEN E ELSE E \o ": " \o message
            IN IF HandlersNamed(E) = {}
               THEN /\ pc' = "exit1"
                    /\ stderr' = Append(stderr, ErrorOnLine(line_index + 1,
                                                            "ERRATUM: " \o text))
               ELSE /\ pc' = "run"
                    /\ line_index' = exception_handlers[Latest(HandlersNamed(E))][2]]_vars

\* IACE ERROR has passed over the more recent handler for NUMERUS and control is
\* at the first line of the body of the handler for ERROR
ThrowPassedOver ==
    /\ pc = "run"
    /\ lines = TwoHandlers
    /\ line_index = 3
    /\ current_exception = Exception("ERROR", "MALUM")
    /\ exception_handlers = <<<<"ERROR", 3>>, <<"NUMERUS", 6>>>>

\* the value an operand token of an arithmetic operation stands for
OperandValue(tok) == IF tok.type = "NUMBER" THEN IntV(tok.num) ELSE variables[tok.value]

\* the current line is V EST DVCE a b, V holds a value, a and b are numbers or
\* variables that hold a value, and b is 0
IsDivisionByZero ==
    /\ pc = "run" /\ line_index < Len(lines)
    /\ Tokens.ok
    /\ Len(Tokens.tokens) = 5
    /\ Tokens.tokens[1].type = "VARIABLE" /\ Tokens.tokens[1].value \in DOMAIN variables
    /\ Tokens.tokens[2] = KW("EST") /\ Tokens.tokens[3] = KW("DVCE")
    /\ \A k \in {4, 5} :
           \/ Tokens.tokens[k].type = "NUMBER"
           \/ Tokens.tokens[k].type = "VARIABLE" /\ Tokens.tokens[k].value \in DOMAIN variables
    /\ OperandValue(Tokens.tokens[5]) = IntV(0)

\* C14: for V EST DVCE a b with b = 0, if the handler stack holds a handler named
\* ERROR, control transfers to the body-start line of the most recent one and V
\* keeps its value; if it holds none (it is empty or holds only handlers with
\* other names) the run ends in the fatal error Divisio per nihil.
DivisionByZeroThrows ==
    [][(IsDivisionByZero /\ steps' = steps + 1)
         => LET V == Tokens.tokens[1].value IN
            IF HandlersNamed("ERROR") = {}
            THEN /\ pc' = "exit1"
                 /\ stderr' = Append(stderr, ErrorOnLine(line_index + 1,
                                                         "ERRATUM: Divisio per nihil"))
            ELSE /\ pc' = "run"
                 /\ line_index' = exception_handlers[Latest(HandlersNamed("ERROR"))][2]
                 /\ V \in DOMAIN variables' /\ variables'[V] = variables[V]]_vars

\* the division by zero has passed over the more recent handler for NUMERUS, control
\* is in the body of the handler for ERROR and NUMERUS still holds 5
DivisionPassedOver ==
    /\ pc = "run"
    /\ lines = DivisionTwoHandlers
    /\ line_index = 3
    /\ current_exception = Exception("ERROR", "Divisio per nihil")
    /\ exception_handlers = <<<<"ERROR", 3>>, <<"NUMERUS", 6>>>>
    /\ variables["NUMERUS"] = IntV(5)

\* line i (0-based) of the program as run() hands it to execute_line
SourceLine(i) == Strip(BeforeComment(Strip(lines[i + 1])))

\* the current line is REDDO x inside a call, and x is a number, a string or a
\* variable that holds a value
IsReturn ==
    /\ pc = "run" /\ line_index < Len(lines)
    /\ StatementAt(line_index) = "REDDO"
    /\ Tokens.ok
    /\ Len(Tokens.tokens) = 2
    /\ \/ Tokens.tokens[2].type \in {"NUMBER", "STRING"}
       \/ Tokens.tokens[2].type = "VARIABLE" /\ Tokens.tokens[2].value \in DOMAIN variables
    /\ call_stack # <<>>

\* C15: the REDDO x that returns from a call V EST VOCA F args, also when the body
\* of F made a call W EST VOCA G ... that returned before, pops the frame of that
\* call, writes the value of x into V, the destination named on the calling line,
\* in the restored environment, and continues at the line after the calling line.
ReturnWritesDestination ==
    [][(IsReturn /\ steps' = steps + 1)
         => LET frame == Last(call_stack)
                V == tokenize_line(SourceLine(frame.return_line), var_order).tokens[1].value
                x == Tokens.tokens[2]
                value == IF x.type = "NUMBER" THEN IntV(x.num)
                         ELSE IF x.type = "STRING" THEN StrV(x.value)
                         ELSE variables[x.value]
            IN /\ pc' = "run"
               /\ call_stack' = Front(call_stack)
               /\ line_index' = frame.return_line + 1
               /\ variables' = Put(frame.saved_vars, V, value)]_vars

\* the positions in q of the diagnostics of run()'s "except Exception" branch
Diagnostics(q) == {k \in DOMAIN q : StartsWith(q[k], "Error on line ")}

\* C16: a run ends with exit status 0 exactly when the instruction pointer reaches
\* the end of the line array without error; every error other than a caught
\* exception aborts the run at the failing line with exit status 1 and a
\* diagnostic that names that line, and no later line is executed.
ExitStatus ==
    [][/\ pc = "run"
       /\ (line_index >= Len(lines)) <=> (pc' = "exit0")
       /\ pc' = "exit0" => (stderr' = stderr /\ stdout' = stdout /\ steps' = steps)
       /\ pc' = "exit1"
              => /\ line_index' = line_index
                 /\ Diagnostics(stderr') = {Len(stderr')}
                 /\ StartsWith(Last(stderr'), ErrorOnLine(line_index + 1, ""))
                 /\ stdout' = stdout
       /\ pc' = "run" => Diagnostics(stderr') = {}]_vars

\* IACE ERROR met only a handler for NUMERUS: the run stopped at line 6 with
\* status 1 and the line after it was not executed
AbortedAtFailingLine ==
    /\ pc = "exit1"
    /\ lines = ThrowPastOther
    /\ line_index = 5
    /\ steps = 5
    /\ stdout = <<>>
    /\ stderr = <<ErrorOnLine(6, "ERRATUM: ERROR: MALUM")>>

\* the line of the statement that opens the block the FINIS at line i closes:
\* Opener(i - 1, 1) walks back over the blocks that are closed before line i
RECURSIVE Opener(_, _)
Opener(i, depth) ==
    IF i < 0 THEN -1
    ELSE IF StatementAt(i) = "FINIS" THEN Opener(i - 1, depth + 1)
    ELSE IF StatementAt(i) \in BlockOpeners
    THEN IF depth = 1 THEN i ELSE Opener(i - 1, depth - 1)
    ELSE Opener(i - 1, depth)

\* the step executes the last line of a loop body, a line that is neither a DUM
\* nor a FINIS, and goes on to the FINIS that closes the loop
BodyReachesFinis ==
    /\ pc = "run" /\ pc' = "run" /\ steps' = steps + 1
    /\ line_index < Len(lines)
    /\ StatementAt(line_index) \notin {"DUM", "FINIS"}
    /\ line_index' = line_index + 1
    /\ line_index' < Len(lines)
    /\ StatementAt(line_index') = "FINIS"

\* C17: for every DUM loop, also one whose body contains another DUM loop, each
\* time the execution of the body reaches the FINIS that closes the loop, control
\* returns to the DUM header line of that loop: in a well-nested program whose
\* only blocks are DUM loops, the FINIS the body has reached jumps to its header.
FinisReturnsToHeader ==
    [][(BodyReachesFinis /\ WellNested /\ OnlyLoops)
         => ExecFINIS(State').line_index = Opener(line_index' - 1, 1)]_vars

\* the step executes a DUM line whose condition is false: the run goes on and no
\* frame is pushed
DumSkips ==
    /\ pc = "run" /\ pc' = "run" /\ steps' = steps + 1
    /\ line_index < Len(lines)
    /\ StatementAt(line_index) = "DUM"
    /\ loop_starts' = loop_starts

\* the state in which the run continues once a skip is complete: the skip lands on
\* a FINIS line, and that FINIS is executed before any other line
AfterLanding(s) ==
    IF s.line_index < Len(s.lines) /\ StatementAt(s.line_index) = "FINIS"
    THEN ExecFINIS(s) ELSE s

\* C18: when a DUM condition is false, no line of the loop body executes, the
\* execution continues with the line after the matching FINIS, and block_depth
\* and the loop stack are the same as before the DUM line (no enclosing loop is
\* restarted), in a well-nested program whose only blocks are DUM loops.
FalseLoopIsSkipped ==
    [][(DumSkips /\ WellNested /\ OnlyLoops)
         => LET after == AfterLanding(State') IN
            /\ after.pc = "run"
            /\ after.line_index = Terminator(line_index + 1, 1, FALSE) + 1
            /\ after.block_depth = block_depth
            /\ after.loop_starts = loop_starts
            /\ after.variables = variables /\ after.stdout = stdout]_vars

\* the FINIS at line f closes an SI block whose lines are SCRIBE statements,
\* assignments and nested SI blocks (with their ALITER and FINIS lines)
ClosesSimpleBranch(f) ==
    LET o == Opener(f - 1, 1) IN
    /\ o >= 0
    /\ StatementAt(o) = "SI"
    /\ \A i \in (o + 1)..(f - 1) : StatementAt(i) \in {"SI", "ALITER", "FINIS", "SCRIBE", ""}

\* C19: for an SI block whose branches contain only SCRIBE statements, assignments
\* and nested SI blocks, whichever branch was executed, the execution continues
\* with the line after the matching FINIS: the step that executes the FINIS of
\* such a block in a well-nested program goes on to the next line.
BranchContinuesAfterFinis ==
    [][(/\ pc = "run" /\ steps' = steps + 1
        /\ line_index < Len(lines)
        /\ StatementAt(line_index) = "FINIS"
        /\ WellNested
        /\ ClosesSimpleBranch(line_index))
         => (pc' = "run" /\ line_index' = line_index + 1)]_vars

\* C20: a FINIS processed while no exception has been thrown and handled (for
\* example the FINIS of an SI, DUM or FAC block that follows a CAPE block) leaves
\* the exception-handler stack unchanged.
FinisKeepsHandlers ==
    [][(/\ pc = "run" /\ steps' = steps + 1
        /\ line_index < Len(lines)
        /\ StatementAt(line_index) = "FINIS"
        /\ current_exception = NoException
        /\ exception_throw_line = None)
         => exception_handlers' = exception_handlers]_vars

\* an exception has been caught: it is being propagated, the run goes on and the
\* handler stack holds a handler with its name
Handling ==
    /\ pc = "run" /\ line_index < Len(lines)
    /\ exception_throw_line # None
    /\ current_exception # NoException
    /\ HandlersNamed(current_exception.type) # {}

\* the body-start line of the handler that has caught the exception, and the
\* FINIS that closes that body
HandlerStart == exception_handlers[Latest(HandlersNamed(current_exception.type))][2]
HandlerFinis == Terminator(HandlerStart, 1, FALSE)

\* C21: after an exception is caught, the lines of the handler body execute up to
\* its closing FINIS and the program then terminates at that FINIS with the
\* handler popped and current_exception cleared; no line outside the handler body
\* executes after the throw, also when the body contains a nested SI block and
\* when several handlers are installed.
HandlerBodyRunsToItsFinis ==
    [][(Handling /\ WellNested /\ steps' = steps + 1)
         => /\ line_index \in HandlerStart..HandlerFinis
            /\ IF line_index = HandlerFinis
               THEN /\ pc' = "run" /\ line_index' = Len(lines)
                    /\ Len(exception_handlers') = Len(exception_handlers) - 1
                    /\ HandlersNamed(current_exception.type)' # HandlersNamed(current_exception.type)
                    /\ current_exception' = NoException
               ELSE /\ pc' = "run"
                    /\ line_index' \in HandlerStart..HandlerFinis
                    /\ current_exception' = current_exception]_vars

\* the current line is a statement CAPE E and no exception of type E is being
\* propagated
IsCatchDefinition ==
    /\ pc = "run" /\ line_index < Len(lines)
    /\ StatementAt(line_index) = "CAPE"
    /\ Tokens.ok
    /\ Len(Tokens.tokens) = 2
    /\ Tokens.tokens[2].type = "VARIABLE"
    /\ ~(current_exception # NoException
         /\ current_exception.type = Tokens.tokens[2].value)

\* C22: CAPE E executed when no exception of type E is being propagated pushes the
\* handler (E, line after CAPE), executes no line of the handler body, raises
\* block_depth by two and sets the skip-pop flag; the next FINIS processed is the
\* FINIS of the handler block, which lowers block_depth by one, clears the flag
\* and leaves the handler on the stack.
CatchDefinitionSkipsBody ==
    [][(IsCatchDefinition /\ WellNested /\ steps' = steps + 1)
         => LET E == Tokens.tokens[2].value
                after == ExecFINIS(State')
            IN /\ pc' = "run"
               /\ exception_handlers' = Append(exception_handlers, <<E, line_index + 1>>)
               /\ block_depth' = block_depth + 2
               /\ skip_handler_pop'
               /\ stdout' = stdout /\ variables' = variables
               /\ line_index' = Terminator(line_index + 1, 1, FALSE)
               /\ StatementAt(line_index') = "FINIS"
               /\ after.block_depth = block_depth + 1
               /\ ~after.skip_handler_pop
               /\ after.exception_handlers = exception_handlers']_vars

\* C23: after REDDO returns from a call, every variable other than the destination
\* has the value it had when the call was made, the field contents of variables
\* that hold records included: the caller of VariableInCall prints the V that
\* INDEX held before the call assigned X to it, and the caller of RecordInCall
\* prints the A that the field NOMEN of SERVUS held before the call assigned B.
CalleeEffectsInvisible ==
    pc = "exit0"
        => /\ lines = VariableInCall => stdout = <<"V">>
           /\ lines = RecordInCall => stdout = <<"A">>

\* the value an argument token of a call stands for in the current environment
ArgumentValue(tok) ==
    IF tok.type = "NUMBER" THEN IntV(tok.num)
    ELSE IF tok.type = "STRING" THEN StrV(tok.value)
    ELSE variables[tok.value]

\* the current line is V EST VOCA F a1 ... ak: V is declared, F is a name, and
\* each argument is a number, a string or a variable that holds a value
IsCall ==
    /\ pc = "run" /\ line_index < Len(lines)
    /\ Tokens.ok
    /\ Len(Tokens.tokens) >= 4
    /\ Tokens.tokens[1].type = "VARIABLE" /\ Tokens.tokens[1].value \in DOMAIN variables
    /\ Tokens.tokens[2] = KW("EST") /\ Tokens.tokens[3] = KW("VOCA")
    /\ Tokens.tokens[4].type = "VARIABLE"
    /\ \A k \in 5..Len(Tokens.tokens) :
           \/ Tokens.tokens[k].type \in {"NUMBER", "STRING"}
           \/ Tokens.tokens[k].type = "VARIABLE" /\ Tokens.tokens[k].value \in DOMAIN variables

\* C24: on V EST VOCA F a1 ... ak, if F is not in the function table or k differs
\* from the number of parameters of F, the run ends in a fatal error and no frame
\* is pushed; otherwise every parameter holds the value its argument had in the
\* caller's environment, exactly one frame (calling line, snapshot) is pushed, and
\* control is at the first body line of F.
CallBindsArguments ==
    [][(IsCall /\ steps' = steps + 1)
         => LET F == Tokens.tokens[4].value
                k == Len(Tokens.tokens) - 4
                arg(i) == ArgumentValue(Tokens.tokens[i + 4])
            IN IF F \notin DOMAIN functions \/ k # Len(functions[F].params)
               THEN /\ pc' = "exit1"
                    /\ call_stack' = call_stack
                    /\ line_index' = line_index
               ELSE LET params == functions[F].params IN
                    /\ pc' = "run"
                    /\ Len(call_stack') = Len(call_stack) + 1
                    /\ Front(call_stack') = call_stack
                    /\ Last(call_stack').return_line = line_index
                    /\ \A v \in DOMAIN variables :
                           /\ v \in DOMAIN Last(call_stack').saved_vars
                           /\ v # "__CALLING_VAR__"
                                  => Last(call_stack').saved_vars[v] = variables[v]
                    /\ line_index' = functions[F].start_line
                    /\ \A i \in 1..k :
                           (\A j \in (i + 1)..k : params[j] # params[i])
                               => /\ params[i] \in DOMAIN variables'
                                  /\ variables'[params[i]] = arg(i)]_vars

\* the call of SwapArguments has passed the variables of the parameters PRIMUS and
\* SECUNDUS in the other order: control is in the body and the two have exchanged
\* their values 1 and 2
ArgumentsExchanged ==
    /\ pc = "run"
    /\ lines = SwapArguments
    /\ line_index = 7
    /\ Len(call_stack) = 1
    /\ call_stack[1].return_line = 11
    /\ call_stack[1].saved_vars["PRIMUS"] = IntV(1)
    /\ variables["PRIMUS"] = IntV(2)
    /\ variables["SECUNDUS"] = IntV(1)

\* the current line is a statement FAC F p1 ... pk
IsDefinition ==
    /\ pc = "run" /\ line_index < Len(lines)
    /\ StatementAt(line_index) = "FAC"
    /\ Tokens.ok
    /\ Len(Tokens.tokens) >= 2
    /\ \A k \in 2..Len(Tokens.tokens) : Tokens.tokens[k].type = "VARIABLE"

\* C25: FAC F p1 ... pk executes no line of the function body, stores for F the
\* parameter list (p1..pk) with start = the line after FAC and end = the line
\* before the matching FINIS, and the execution continues with the line after that
\* FINIS with block_depth equal to its value before the FAC line, in a well-nested
\* program.
DefinitionSkipsBody ==
    [][(IsDefinition /\ WellNested /\ steps' = steps + 1)
         => LET F == Tokens.tokens[2].value
                k == Len(Tokens.tokens) - 2
                finis == Terminator(line_index + 1, 1, FALSE)
                after == AfterLanding(State')
            IN /\ pc' = "run"
               /\ F \in DOMAIN functions'
               /\ functions'[F] = [params |-> [i \in 1..k |-> Tokens.tokens[i + 2].value],
                                   start_line |-> line_index + 1,
                                   end_line |-> finis - 1]
               /\ stdout' = stdout /\ variables' = variables
               /\ line_index' = finis
               /\ after.pc = "run"
               /\ after.line_index = finis + 1
               /\ after.block_depth = block_depth
               /\ after.stdout = stdout /\ after.variables = variables]_vars

\* a loop or branch header followed by a one-line body and its FINIS, with the
\* variables of the current state: the line the header continues with tells
\* whether it took its condition as true
ConditionProbe ==
    [State EXCEPT !.lines = <<"", "SCRIBE\"INTVS\"", "FINIS">>, !.line_index = 0]

\* what a header made of its condition: the run ended in a fatal error, the body
\* is entered, or the body is passed over
Verdict(after) ==
    IF after.pc = "exit1" THEN "fatal"
    ELSE IF after.line_index = 1 THEN "true"
    ELSE "false"

\* the variables that hold an Integer or a String, and the right operands of a
\* condition: number literals, string literals and those variables
Scalars == {v \in DOMAIN variables : variables[v].t \in {"int", "str"}}
RightOperands ==
    {NumTok(0), NumTok(5), Tok("STRING", "A"), Tok("STRING", "AVE")}
        \cup {Tok("VARIABLE", v) : v \in Scalars}

\* C26: DUM evaluates its condition with the same comparison semantics as SI: for
\* every operator, every left variable that holds an Integer or a String and
\* every right operand (number literal, string literal, or variable that holds an
\* Integer or a String), DUM and SI both take the condition as true, both take it
\* as false, or both end in a fatal error.
LoopConditionAsBranch ==
    pc = "run"
        => \A op \in {"AEQUAT", "MAIVS", "MINOR"} : \A left \in Scalars :
           \A right \in RightOperands :
               Verdict(ExecDUM(ConditionProbe,
                               <<KW("DUM"), Tok("VARIABLE", left), KW(op), right>>))
                   = Verdict(ExecSI(ConditionProbe,
                                    <<KW("SI"), Tok("VARIABLE", left), KW(op), right>>))

\* lines written with spaces between their tokens, each with the same line written
\* without spaces
SpacedLines ==
    {<<"SIT NUMERUS", "SITNUMERUS">>,
     <<"SCRIBE NUMERUM", "SCRIBENUMERUM">>,
     <<"NUMERUS EST V", "NUMERUSESTV">>}

\* C27: whitespace between two tokens of a line is skipped by the tokenizer: a
\* line written with spaces between its tokens (SIT NUMERUS, SCRIBE NUMERUM)
\* tokenizes to the same token sequence as the same line written without spaces,
\* and does not produce a tokenization error.
WhitespaceIsSkipped ==
    \A pair \in SpacedLines :
        LET spaced == tokenize_line(pair[1], var_order)
            abutted == tokenize_line(pair[2], var_order)
        IN abutted.ok => (spaced.ok /\ spaced.tokens = abutted.tokens)

\* C28: identifiers can abut keywords: for every name N that has been declared by
\* SIT and every keyword K, the text K immediately followed by N (SCRIBE followed
\* by N, SI followed by N) tokenizes as Keyword(K) followed by Variable(N).
KeywordThenName ==
    \A N \in declared_vars : \A K \in KeywordSet :
        tokenize_line(K \o N, var_order) = TokOk(<<KW(K), Tok("VARIABLE", N)>>)

\* C29: the declared-identifier rule emits Genitive(N) for a match that is the
\* genitive form of a declared name N and Variable(N) for a match of any other
\* case form; hence for every declared name N with a declension entry, input
\* consisting of the genitive form of N tokenizes to the single token
\* Genitive(N), so that the field-access forms are recognised.
GenitiveIsRecognised ==
    \A N \in declared_vars :
        (N \in DeclKeys /\ get_genitive(N) # "")
            => tokenize_line(get_genitive(N), var_order) = TokOk(<<Tok("GENITIVE", N)>>)

\* the keywords that are a prefix of rest, and the longest of them
KeywordPrefixes(rest) == {K \in KeywordSet : StartsWith(rest, K)}
LongestKeyword(rest) ==
    CHOOSE K \in KeywordPrefixes(rest) : \A J \in KeywordPrefixes(rest) : Len(J) <= Len(K)

\* C30: at any position where one or more keywords are a prefix of the remaining
\* input, the tokenizer emits the longest such keyword (SIT rather than SI), even
\* though it tries the keywords in list order and takes the first that matches:
\* at every position of the line the run is at, the keyword the list search
\* yields is the longest keyword prefix, and it is the first token of a line that
\* starts with a keyword.
LongestKeywordIsEmitted ==
    (pc = "run" /\ line_index < Len(lines))
        => /\ \A pos \in 0..(Len(CurLine) - 1) :
                  LET rest == From(CurLine, pos) IN
                  KeywordPrefixes(rest) # {} => FirstKeyword(rest, 1) = LongestKeyword(rest)
           /\ (KeywordPrefixes(CurLine) # {} /\ Tokens.ok)
                  => Tokens.tokens[1] = KW(LongestKeyword(CurLine))

\* the first line of Greater, SITPRIMUS, starts with the keywords SI and SIT; it
\* has been tokenized as a declaration and PRIMUS is declared
LongerKeywordTaken ==
    /\ pc = "run"
    /\ lines = Greater
    /\ line_index = 1
    /\ KeywordPrefixes(SourceLine(0)) = {"SI", "SIT"}
    /\ declared_vars = {"PRIMUS"}
    /\ "PRIMUS" \in DOMAIN variables

\* the suffix rules of the declension guess, in the order they are tried; each
\* form is given by the number of characters cut from the end of the name and
\* the ending that is added
Form(cut, ending) == [cut |-> cut, ending |-> ending]
SuffixRules ==
    <<[suffixes |-> {"US"}, gen |-> Form(2, "I"), acc |-> Form(2, "UM"),
       dat |-> Form(2, "O"), abl |-> Form(2, "O"), voc |-> Form(2, "E")],
      [suffixes |-> {"OR"}, gen |-> Form(0, "IS"), acc |-> Form(0, "EM"),
       dat |-> Form(0, "I"), abl |-> Form(0, "E"), voc |-> Form(0, "")],
      [suffixes |-> {"IO"}, gen |-> Form(0, "NIS"), acc |-> Form(0, "NEM"),
       dat |-> Form(0, "NI"), abl |-> Form(0, "NE"), voc |-> Form(0, "")],
      [suffixes |-> {"A"}, gen |-> Form(1, "AE"), acc |-> Form(1, "AM"),
       dat |-> Form(1, "AE"), abl |-> Form(1, "A"), voc |-> Form(1, "A")],
      [suffixes |-> {"VM", "UM"}, gen |-> Form(2, "I"), acc |-> Form(0, ""),
       dat |-> Form(2, "O"), abl |-> Form(2, "O"), voc |-> Form(0, "")],
      [suffixes |-> {""}, gen |-> Form(0, "I"), acc |-> Form(0, "M"),
       dat |-> Form(0, "O"), abl |-> Form(0, "O"), voc |-> Form(0, "E")]>>

\* the first rule one of whose suffixes the name ends with
FirstRule(N) ==
    SuffixRules[CHOOSE k \in DOMAIN SuffixRules :
                    /\ \E x \in SuffixRules[k].suffixes : EndsWith(N, x)
                    /\ \A j \in 1..(k - 1) :
                           \A x \in SuffixRules[j].suffixes : ~EndsWith(N, x)]

Built(N, f) == SubSeq(N, 1, Len(N) - f.cut) \o f.ending

\* the current line is a statement SIT N
IsDeclaration ==
    /\ pc = "run" /\ line_index < Len(lines)
    /\ StatementAt(line_index) = "SIT"
    /\ Tokens.ok
    /\ Len(Tokens.tokens) = 2
    /\ Tokens.tokens[2].type = "VARIABLE"

\* C31: when SIT declares a name N that is not a key of the declension table, the
\* entry added for N has exactly the forms given by the first matching suffix rule
\* in the order US, OR, IO, A, VM or UM, fallback; when N is already a key of the
\* table, the table is left unchanged.
DeclarationAddsEntry ==
    [][(IsDeclaration /\ steps' = steps + 1)
         => LET N == Tokens.tokens[2].value
                r == FirstRule(N)
            IN IF N \in DeclKeys THEN DECLENSIONS' = DECLENSIONS
               ELSE DECLENSIONS' = Append(DECLENSIONS,
                        [nom |-> N, gen |-> Built(N, r.gen), acc |-> Built(N, r.acc),
                         dat |-> Built(N, r.dat), abl |-> Built(N, r.abl),
                         voc |-> Built(N, r.voc)])]_vars

\* AutoDeclensions has declared ADDITOR, RATIO and the table key NUMERUS: the table
\* holds the entries of the OR rule and the IO rule after its 43 built-in entries
\* and nothing more
EntriesGuessed ==
    /\ pc = "run"
    /\ lines = AutoDeclensions
    /\ line_index = 6
    /\ Len(DECLENSIONS) = Len(BuiltinDeclensions) + 2
    /\ DECLENSIONS[Len(BuiltinDeclensions) + 1]
           = Decl("ADDITOR", "ADDITORIS", "ADDITOREM", "ADDITORI", "ADDITORE", "ADDITOR")
    /\ DECLENSIONS[Len(DECLENSIONS)]
           = Decl("RATIO", "RATIONIS", "RATIONEM", "RATIONI", "RATIONE", "RATIO")

\* the current line is V EST op a b with op one of ADDE, DEME, MVLTIPLICA, DVCE: V
\* holds a value, a and b are numbers or variables that hold a value, and one of
\* them is a variable that holds a String or a Record
IsArithmeticOnText ==
    /\ pc = "run" /\ line_index < Len(lines)
    /\ Tokens.ok
    /\ Len(Tokens.tokens) = 5
    /\ Tokens.tokens[1].type = "VARIABLE" /\ Tokens.tokens[1].value \in DOMAIN variables
    /\ Tokens.tokens[2] = KW("EST")
    /\ Tokens.tokens[3] \in {KW("ADDE"), KW("DEME"), KW("MVLTIPLICA"), KW("DVCE")}
    /\ \A k \in {4, 5} :
           \/ Tokens.tokens[k].type = "NUMBER"
           \/ Tokens.tokens[k].type = "VARIABLE" /\ Tokens.tokens[k].value \in DOMAIN variables
    /\ \E k \in {4, 5} :
           /\ Tokens.tokens[k].type = "VARIABLE"
           /\ variables[Tokens.tokens[k].value].t \in {"str", "dict"}

\* C32: ADDE, DEME, MVLTIPLICA and DVCE require Integer operands: if either
\* operand is a variable that holds a String or a Record, the statement ends in a
\* fatal type error and the destination variable is unchanged.
ArithmeticRequiresIntegers ==
    [][(IsArithmeticOnText /\ steps' = steps + 1)
         => /\ pc' = "exit1"
            /\ Len(stderr') = Len(stderr) + 1
            /\ variables' = variables]_vars

\* the fields read through a variable that holds a Record
FieldsOf(env, objects, V) == objects[env[V].i]

\* the current line is a field assignment F <genitive of U> EST x
IsFieldAssignment ==
    /\ pc = "run" /\ line_index < Len(lines)
    /\ Tokens.ok
    /\ Kind(Tokens.tokens) = "FIELD"

\* C33: V EST U where U holds a Record gives V a value-level copy of the record:
\* assigning a field through one of the two does not change the fields read
\* through the other. A field assignment through U leaves the fields read through
\* every other variable that holds a Record as they were.
FieldAssignmentIsLocal ==
    [][(IsFieldAssignment /\ steps' = steps + 1 /\ pc' = "run")
         => LET U == Tokens.tokens[2].value IN
            \A V \in DOMAIN variables \ {U} :
                variables[V].t = "dict"
                    => /\ V \in DOMAIN variables' /\ variables'[V].t = "dict"
                       /\ FieldsOf(variables', heap', V) = FieldsOf(variables, heap, V)]_vars

\* the value of a numeral by the add/subtract rule: a character counts negative
\* when the character to its right has a greater value, positive otherwise
RECURSIVE SignedSum(_, _)
SignedSum(roman, i) ==
    IF i >= Len(roman) THEN 0
    ELSE LET value == ROMAN_VALUES(CharAt(roman, i))
             subtract == /\ i + 1 < Len(roman)
                         /\ value < ROMAN_VALUES(CharAt(roman, i + 1))
         IN (IF subtract THEN 0 - value ELSE value) + SignedSum(roman, i + 1)

OnlyNumeralLetters(roman) ==
    \A i \in 0..(Len(roman) - 1) : CharAt(roman, i) \in RomanLetters

\* C34: for every non-empty string over the characters M, D, C, L, X, V, I,
\* canonical spelling or not, parse returns a strictly positive integer computed by
\* the right-to-left add/subtract rule; it returns none only for the empty string
\* or a string that contains another character.
ParseIsPositive ==
    probe.stage = "parsed"
        => IF probe.roman # "" /\ OnlyNumeralLetters(probe.roman)
           THEN /\ probe.parsed = Some(SignedSum(probe.roman, 0))
                /\ probe.parsed.val > 0
           ELSE probe.parsed = None

\* the text IIII, which is not a canonical numeral, has been parsed to 4, and the
\* text IVXLCDM, in which six characters are subtracted, to 334
NonCanonicalParsed ==
    /\ probe.stage = "parsed"
    /\ \/ probe.roman = "IIII" /\ probe.parsed = Some(4)
       \/ probe.roman = "IVXLCDM" /\ probe.parsed = Some(334)

\* C35: in every reachable state, every name in the declared set, which the
\* tokenizer uses to recognise identifiers, is a key of the variable environment,
\* so a Variable token for a declared name always resolves to a value; this holds
\* after any sequence of SIT, VOCA and REDDO, a SIT inside a function body
\* included.
DeclaredNamesHaveValues == declared_vars \subseteq DOMAIN variables

\* C36: the tokens of the line about to run are the same for every order in
\* which the declared names can be visited: a form that two declared names
\* share at the same length does not make the result depend on that order.
TokenizationIgnoresOrder ==
    (InLoop /\ CurLine # "")
        => \A order \in Orders(declared_vars) :
               tokenize_line(CurLine, order) = Tokens

\* C37: the instruction pointer stays inside 0..N, N the number of lines: no
\* handler returns a jump target outside the line array.
InstructionPointerInRange == 0 <= line_index /\ line_index <= Len(lines)

\* a false SI whose ALITER is the last line continues at N
BranchLandsAtEnd ==
    lines = AliterOnLastLine /\ line_index = Len(lines) /\ block_depth = 1

\* the program has no DUM statement and no VOCA: neither word occurs in a line
NoLoopNoCall ==
    \A i \in 1..Len(lines) : ~Contains(lines[i], "DUM") /\ ~Contains(lines[i], "VOCA")

\* C38: a run of a program without DUM and without VOCA ends: it does not go on
\* fetching lines until MaxSteps lines were executed (no such program of the
\* model has as many as MaxSteps lines)
RunWithoutLoopEnds ==
    (NoLoopNoCall /\ pc = "run" /\ line_index < Len(lines)) => steps < MaxSteps

====
